---- MODULE Spec2Model ----
(***************************************************************************)
(* Eqiva Smart Radiator Thermostat: the command line entry point, the      *)
(* scan based address resolution, the fleet controller                     *)
(* (ThermostatController) and the per-device sessions (Thermostat).        *)
(*                                                                         *)
(* One asyncio event loop runs one callback at a time.  The caller         *)
(* coroutine (ThermostatCLI.process, example.do_stuff) is modelled by pc;  *)
(* the per-session tasks a fan-out hands to asyncio.gather are modelled by *)
(* todo/tstate (connect and command tasks) and dstate (disconnect tasks).  *)
(* Only while pc is at an await (Awaits) do the other callbacks of the     *)
(* loop run.                                                               *)
(***************************************************************************)
EXTENDS Integers, Sequences, FiniteSets, TLC

\* ------------------------------------------------------------------ bounds
\* Tokens on the command line that match no device in range.
MaxUnknown == 7
\* Commands of one invocation.
MaxCommands == 2
\* BLEDevice objects one scan collects.
MaxFound == 3
\* Methods a caller calls on one Thermostat, connect included.
MaxCalls == 3
\* The values a Temperature is made of lie between -MaxTenths and MaxTenths
\* tenths of a degree.
MaxTenths == 320
\* save_status_store writes the YAML file at most MaxSaves times.
MaxSaves == 3

\* Every list of up to MaxEvents sample events is given to Program().
MaxEvents == 3
\* The timeout of ThermostatController.connect and the duration of an
\* unfiltered scan, in seconds.
MaxTimeout == 2

\* ------------------------------------------------------- program constants
MAX_BLE_CONNECTIONS == 8
CLI_TIMEOUT == 15
MAX_EVENTS == 7
\* len(COMMANDS["program"]["types"])
PROGRAM_TYPES == 14

\* Thermostat.MAC_PREFIX = "00:1A:22:", as octets.
MAC_PREFIX == <<"00", "1A", "22">>

\* --------------------------------------------------------- the radio world
\* The peripherals in range.  Addresses are sequences of octets, names are
\* sequences of one word, so that both are tokens of one kind.
Devices == {"d1", "d2", "d3"}

Address(d) ==
    CASE d = "d1" -> <<"00", "1A", "22", "01">>
      [] d = "d2" -> <<"00", "1a", "22", "02">>
      [] d = "d3" -> <<"AA", "BB", "CC", "03">>
      [] d = "d4" -> <<"00", "1A", "22", "04">>

\* Every thermostat of the family advertises the same name.  device.name of
\* d4, a vendor device seen without a local name, is empty.
Name(d) == IF d = "d4" THEN <<>> ELSE <<"CC-RT-BLE">>

\* str.upper() on one octet.
UpperOctet(o) == IF o = "1a" THEN "1A" ELSE o

Upper(s) == [i \in DOMAIN s |-> UpperOctet(s[i])]

StartsWith(s, p) == Len(s) >= Len(p) /\ SubSeq(s, 1, Len(p)) = p

UnknownOctets == <<"F1", "F2", "F3", "F4", "F5", "F6", "F7", "F8", "F9">>

\* Tokens that match no vendor device: the first is the address of the
\* foreign device d3, the others are addresses nobody advertises.
Unknown(k) == IF k = 1 THEN Address("d3") ELSE <<"00", "1A", "22", UnknownOctets[k]>>

\* The tokens of the command line that match a device in range: the address
\* of d1, and the name, which d1 and d2 both advertise.
KnownTokens == {Address("d1"), Name("d1")}

AddressSets ==
    {known \cup {Unknown(k) : k \in 1..n} : known \in SUBSET KnownTokens, n \in 0..MaxUnknown}

VARIABLES
    entry,            \* which program runs: "cli" (ThermostatCLI) or "example" (example.py)
    argv,             \* the command line: [first, addresses] (addresses are parsed
                      \* only if first = "args"); its commands are drawn when read
    pc,               \* position of the caller coroutine
    exc,              \* the exception the caller is handling ("none" if none)
    cliError,         \* what the program ended with
    ncmd,             \* commands of the invocation dispatched so far
    dumpNext,         \* requestDeviceInfo: the next thermostat of its loop (0 outside)
    \* ThermostatController.scan
    filter_, consumed_filter, found_devices, found_bulbs,
    start_time, duration, now,
    resolved,         \* history: the tokens consumed, in order
    late,             \* history: a match on an already consumed token was seen
    advertised,       \* history: the devices the callback was called for
    ticked,           \* a second went by during the current asyncio.sleep(.1)
    overrun,          \* history: seconds scanned with the stop condition true (up to 2)
    \* ThermostatController
    devices,          \* connect(): the result of scan
    thermostats,      \* the sessions, as the sequence of their devices
    \* asyncio.gather of the fan-out the caller awaits
    awaiting,         \* the sessions whose tasks it gathers
    gexc,             \* the first exception a gathered task raised ("none" if none)
    \* per session
    is_connected,     \* BleakClient.is_connected
    todo,             \* steps left of the session's connect or command task
    tstate,           \* that task: "none", "run", "done", "raised", "cancelled"
    dstate,           \* the session's disconnect task, same values
    opn,              \* history: Thermostat operations begun on the session
    wire,             \* history: what the transport saw, <<"w"|"a"|"s", operation>>
    everConnected,    \* history: the session reached Connected
    discAttempted,    \* history: a disconnect of the session was started
    \* history of the controller calls
    lastCall,         \* [op, exc]: the last call that returned ("connect", "fanout",
                      \* "requestDeviceInfo", "disconnect"), and the exception it raised
    callConnected,    \* the sessions connected when the current fleet operation was called
    ioTargets,        \* the sessions the current fleet operation issued I/O to
    scanStarted,      \* a scan was started
    resolutionError,  \* connect() raised "Could not find all given addresses"
    validationError,  \* a value type rejected its parameters
    \* one Thermostat object and the caller of its methods
    impl,             \* its class: "package" (eqiva_thermostat/utils/Thermostat.py)
                      \* or "script" (eqiva.py)
    link,             \* BleakClient.is_connected
    notifying,        \* start_notify succeeded: notifications are delivered
    warnings,         \* history: LOGGER.warning calls about the notifications
    state,            \* the attributes onNotify, requestName and requestVendor set
    method,           \* the method of the Thermostat called last ("none" before)
    ahead,            \* the awaits that method has still to pass (<<>> once it ended)
    acks,             \* history: writes of the method acknowledged
    settles,          \* history: settle sleeps of the method ended
    heard,            \* history: a notification arrived during the method
    outcome,          \* history: how the last method ended ("none" before)
    calls,            \* methods called so far
    frame,            \* history: the frame the last step decoded (NoFrame if none)
    decodeError,      \* history: the exception that decoding raised ("none" if none)
    \* api.py: the registry of the open sessions and the shutdown
    connected_thermostats,  \* the set: the Thermostat objects, named by their tasks
    lock_holder,      \* connected_thermostats_lock: who holds it ("none" if free)
    task_pc,          \* per task of poll_status, set_temperature: its position
    cleanup_pc,       \* the main thread: "running", then handle_exit's position
    to_disconnect,    \* cleanup_thermostats: its list thermostats, as a set
    disconnect_pc,    \* cleanup_all: per Thermostat, the position of its wait_for
    elapsed,          \* seconds since cleanup_all began to await
    abandoned,        \* history: the Thermostats whose wait_for ran into its timeout
    \* one Temperature
    valueC,           \* the value given to Temperature(), in tenths of a degree
    made,             \* "none", "ok" (constructed) or the exception of __init__
    byte,             \* what toByte returned (None before)
    back,             \* valueC of Temperature.fromByte(byte), in tenths (None before)
    \* one value object, or one command, encoded and decoded
    vt,               \* its class, or the method of Thermostat that encodes it
    vin,              \* the arguments given to its constructor (NoneObject if bytes are given)
    vobj,             \* [made, value]: "none", "ok" or the exception of __init__,
                      \* and the attributes of the object
    venc,             \* [bytes, error]: what toBytes returned or raised ("pending" before,
                      \* "given" if the bytes are the input)
    vdec,             \* [value, error]: what fromBytes returned or raised ("pending" before)
    \* api.py and api/services/dht_service.py: the status store and the threads
    status_store,     \* mac -> the dict of its status, a function of its keys
    saved,            \* how often save_status_store wrote the YAML file
    polled,           \* the last poll_status: [mac, new_status, outcome]
    server,           \* "api" (api.py) or "dht_service" (DHTService): whose threads
    DHT_PIN,          \* DHT_PIN of api.py, dht_pin of DHTService; None: not set
    started,          \* [polling, dht]: the flags start_polling._started and
                      \* _dht_thread_started (_thread_started of DHTService)
    threads,          \* [polling, dht]: how many Thread(...).start() ran for each
    handler_pc,       \* position of main and of each request handler
    handler_pin       \* the pin each request handler was given

scanVars == <<filter_, consumed_filter, found_devices, found_bulbs,
              start_time, duration, now, resolved, late, advertised, ticked, overrun>>

sessVars == <<is_connected, todo, tstate, dstate, opn, wire, everConnected, discAttempted>>

histVars == <<lastCall, callConnected, ioTargets, scanStarted, resolutionError,
              validationError>>

\* The variables of the Thermostat of SpecThermostat.
thermostatVars == <<impl, link, notifying, warnings, state, method, ahead, acks,
                    settles, heard, outcome, calls, frame, decodeError>>

\* The variables that only the specifications of single components use.
apiVars == <<connected_thermostats, lock_holder, task_pc, cleanup_pc, to_disconnect,
             disconnect_pc, elapsed, abandoned>>

temperatureVars == <<valueC, made, byte, back>>

valueVars == <<vt, vin, vobj, venc, vdec>>

\* The store of api.py and the threads of api.py and DHTService.
serviceVars == <<status_store, saved, polled, server, DHT_PIN, started, threads,
                 handler_pc, handler_pin>>

otherVars == <<thermostatVars, apiVars, temperatureVars, valueVars, serviceVars>>

vars == <<entry, argv, pc, exc, cliError, ncmd, dumpNext, scanVars, devices, thermostats,
          awaiting, gexc, sessVars, histVars, otherVars>>

Sessions == DOMAIN thermostats

\* The positions of scan() inside "async with BleakScanner(callback)": the
\* scanner is being started, the loop sleeps .1, the fixed sleep(duration),
\* the endless loop of sleep(1).
Scanning == {"scan_enter", "scan", "scan_sleep", "scan_forever"}

\* The caller is at an await: the event loop runs the other callbacks.
Awaits == {"scan", "await_connect", "await_cmd", "await_disc"}

\* ---------------------------------------------------------------- ThermostatCLI
\* A cap that lets one address more through.
TooManyOffByOne(addresses) == Cardinality(addresses) > MAX_BLE_CONNECTIONS + 1

\* The cap of __init__.
TooMany(addresses) == Cardinality(addresses) > MAX_BLE_CONNECTIONS

\* A command of the command line.  temp: a temperature in tenths of a degree;
\* word: "temp" is given on, off, comfort or eco instead; minutes: of
\* "openwindow"; day, pairs, final: of "program" (the weekday, the number of
\* <temp> <hh:mm> pairs, a closing <temp>); date: the date of "vacation" is a
\* day of the calendar.
Cmd(name, temp, minutes, day, pairs, final) ==
    [name |-> name, temp |-> temp, word |-> FALSE, minutes |-> minutes, day |-> day,
     pairs |-> pairs, final |-> final, date |-> TRUE]

SendCommands == {"mode", "boost", "status", "lock", "reset", "serial"}

ReadCommands == {"name", "vendor"}

PrintCommands == {"print", "commands", "json"}

TempSamples == {40, 45, 203, 205, 300, 305}

OffsetSamples == {-40, -35, 0, 3, 35, 40}

MinuteSamples == {0, 30, 33, 995, 1000}

CommandLines ==
    {Cmd(n, 200, 0, "", 0, FALSE) :
        n \in SendCommands \cup ReadCommands \cup PrintCommands \cup {"dump"}}
    \cup {Cmd(n, t, 0, "", 0, FALSE) : n \in {"temp", "comforteco"}, t \in TempSamples}
    \cup {[Cmd("temp", 200, 0, "", 0, FALSE) EXCEPT !.word = TRUE]}
    \cup {Cmd("offset", t, 0, "", 0, FALSE) : t \in OffsetSamples}
    \cup {[Cmd("vacation", t, 0, "", 0, FALSE) EXCEPT !.date = d] :
            t \in {40, 200}, d \in BOOLEAN}
    \cup {Cmd("openwindow", 200, m, "", 0, FALSE) : m \in MinuteSamples}
    \cup {Cmd("program", 200, 0, d, k, f) :
            d \in {"", "mon", "weekend"}, k \in 0..(MAX_EVENTS + 1), f \in BOOLEAN}

\* A pattern that lets every number with one decimal from 4.0 to 30.5 through.
TemperaturePatternLoose(t) == t \in 40..305

\* (4\.5|[5-9]\.[05]|[12][0-9]\.[05]|30\.0)
TemperaturePattern(t) == t \in 45..300 /\ t % 5 = 0

\* -?[0-3]\.[05]
OffsetPattern(t) == t \in -35..35 /\ t % 5 = 0

\* \d{0,2}[05]
MinutesPattern(m) == m \in 0..999 /\ m % 5 = 0

\* The pattern of "program": an optional weekday, up to 7 pairs that each
\* start with a blank, an optional closing temperature.  The arguments are
\* joined with blanks, so pairs match only behind a weekday.
ProgramPattern(c) ==
    /\ c.pairs <= 7
    /\ c.pairs > 0 \/ c.final => c.day # ""

\* COMMANDS[cmd]["regex"] matches the arguments of c.
Matches(c) ==
    CASE c.name \in {"temp", "comforteco"} -> c.word \/ TemperaturePattern(c.temp)
      [] c.name = "vacation" -> TemperaturePattern(c.temp)
      [] c.name = "offset" -> OffsetPattern(c.temp)
      [] c.name = "openwindow" -> TemperaturePattern(c.temp) /\ MinutesPattern(c.minutes)
      [] c.name = "program" -> ProgramPattern(c)
      [] OTHER -> TRUE

ArgsOf(c) == (IF c.day # "" THEN 1 ELSE 0) + 2 * c.pairs + (IF c.final THEN 1 ELSE 0)

\* transform_commands on command c: "EqivaException" if the pattern does not
\* match, "IndexError" if there are more arguments than types, else "none".
transform_commands(c) ==
    IF ~Matches(c) THEN "EqivaException"
    ELSE IF c.name = "program" /\ ArgsOf(c) > PROGRAM_TYPES THEN "IndexError"
    ELSE "none"

\* The commands that reach process().
Commands == {c \in CommandLines : transform_commands(c) = "none"}

\* No notification frame.
NoFrame == <<-1>>

\* None, where the attribute is a number otherwise (a byte, a temperature in
\* tenths of a degree, a firmware version in hundredths) and where it is an
\* object otherwise (modelled as a sequence).
None == -1000

NoneObject == <<None>>

\* Thermostat.__init__: every attribute is None, programs is [None] * 7.
NewState ==
    [name |-> "None", vendor |-> "None", serialNumber |-> NoneObject, firmware |-> None,
     mode |-> None, temperature |-> None, valve |-> None, vacation |-> NoneObject,
     programs |-> [d \in 0..6 |-> NoneObject], ecoTemperature |-> None,
     comfortTemperature |-> None, openWindowConfig |-> NoneObject,
     offsetTemperature |-> None]

\* No Thermostat object is under observation.
NoThermostat ==
    /\ impl = "none" /\ link = FALSE /\ notifying = FALSE /\ warnings = 0
    /\ state = NewState /\ method = "none" /\ ahead = <<>>
    /\ acks = 0 /\ settles = 0 /\ heard = FALSE /\ outcome = "none" /\ calls = 0
    /\ frame = NoFrame /\ decodeError = "none"

\* The tasks of api.py that open a session: two poll_status tasks that
\* polling_loop gathers, and the set_temperature of one request.
Tasks == {"poll1", "poll2", "set_temperature"}

\* api.py does not run.
NoApi ==
    /\ connected_thermostats = {} /\ lock_holder = "none"
    /\ task_pc = [k \in Tasks |-> "idle"] /\ cleanup_pc = "running"
    /\ to_disconnect = {} /\ disconnect_pc = [k \in Tasks |-> "none"]
    /\ elapsed = 0 /\ abandoned = {}

\* No Temperature is made.
NoTemperature == valueC = None /\ made = "none" /\ byte = None /\ back = None

\* Nothing is made, encoded or decoded yet.
Unmade == [made |-> "none", value |-> NoneObject]

Unencoded == [bytes |-> NoFrame, error |-> "pending"]

Undecoded == [value |-> NoneObject, error |-> "pending"]

\* No value object is made.
NoValue ==
    /\ vt = "none" /\ vin = NoneObject
    /\ vobj = Unmade /\ venc = Unencoded /\ vdec = Undecoded

\* The threads main and the request handlers run in.
Handlers == {"main", "request1", "request2"}

\* No poll has run, and no thread of the server.
Unpolled == [mac |-> "none", new_status |-> <<>>, outcome |-> "none"]

NoThreadsYet ==
    /\ DHT_PIN = None
    /\ started = [polling |-> FALSE, dht |-> FALSE]
    /\ threads = [polling |-> 0, dht |-> 0]
    /\ handler_pc = [h \in Handlers |-> "idle"]
    /\ handler_pin = [h \in Handlers |-> None]

\* No server is under observation.
NoService ==
    /\ status_store = <<>> /\ saved = 0 /\ polled = Unpolled
    /\ server = "none"
    /\ NoThreadsYet

Init ==
    /\ entry \in {"cli", "example"}
    /\ IF entry = "cli"
       THEN argv \in [first : {"args"}, addresses : AddressSets]
                      \cup [first : {"--help", "--aliases"}, addresses : {{}}]
       ELSE argv = [first |-> "args", addresses |-> {}]
    /\ pc = "init"
    /\ exc = "none"
    /\ cliError = "none"
    /\ ncmd = 0
    /\ dumpNext = 0
    /\ filter_ = {}
    /\ consumed_filter = <<>>
    /\ found_devices = {}
    /\ found_bulbs = <<>>
    /\ start_time = 0
    /\ duration = 0
    /\ now = 0
    /\ resolved = <<>>
    /\ late = FALSE
    /\ advertised = {}
    /\ ticked = FALSE
    /\ overrun = 0
    /\ devices = <<>>
    /\ thermostats = <<>>
    /\ awaiting = {}
    /\ gexc = "none"
    /\ is_connected = <<>>
    /\ todo = <<>>
    /\ tstate = <<>>
    /\ dstate = <<>>
    /\ opn = <<>>
    /\ wire = <<>>
    /\ everConnected = <<>>
    /\ discAttempted = <<>>
    /\ lastCall = [op |-> "none", exc |-> "none"]
    /\ callConnected = {}
    /\ ioTargets = {}
    /\ scanStarted = FALSE
    /\ resolutionError = FALSE
    /\ validationError = FALSE
    /\ NoThermostat
    /\ NoApi
    /\ NoTemperature
    /\ NoValue
    /\ NoService

\* ThermostatCLI.__init__ up to asyncio.run(self.process(...)).  c: the
\* command of the command line that decides what transform_commands does (one
\* it rejects if there is one).  EqivaException is logged; IndexError leaves
\* the program with a traceback.
CLI___init__(c) ==
    /\ entry = "cli"
    /\ pc = "init"
    /\ IF argv.first # "args"
       THEN pc' = "exit" /\ cliError' = "none" /\ UNCHANGED validationError
       ELSE IF transform_commands(c) = "EqivaException"
       THEN pc' = "exit" /\ cliError' = "EqivaException:parameters" /\ validationError' = TRUE
       ELSE IF transform_commands(c) # "none"
       THEN pc' = "exit" /\ cliError' = transform_commands(c) /\ UNCHANGED validationError
       ELSE IF argv.addresses # {} /\ TooMany(argv.addresses)
       THEN pc' = "exit" /\ cliError' = "EqivaException:too many" /\ UNCHANGED validationError
       ELSE IF argv.addresses # {}
       THEN pc' = "process" /\ cliError' = "none" /\ UNCHANGED validationError
       ELSE pc' = "exit" /\ cliError' = "EqivaException:unknown" /\ UNCHANGED validationError
    /\ UNCHANGED <<otherVars, entry, argv, exc, ncmd, dumpNext, scanVars, devices, thermostats,
                   awaiting, gexc, sessVars, lastCall, callConnected, ioTargets,
                   scanStarted, resolutionError>>

\* ---------------------------------------------------- ThermostatController.scan
RECURSIVE SetToSeq(_)
SetToSeq(S) ==
    IF S = {} THEN <<>>
    ELSE LET x == CHOOSE y \in S : TRUE IN <<x>> \o SetToSeq(S \ {x})

InSeq(x, s) == \E i \in DOMAIN s : s[i] = x

\* list.remove(x): drops the first occurrence.
Remove(s, x) ==
    LET i == CHOOSE j \in DOMAIN s : s[j] = x /\ \A k \in 1..(j - 1) : s[k] # x
    IN  SubSeq(s, 1, i - 1) \o SubSeq(s, i + 1, Len(s))

\* process(): controller = ThermostatController(addresses); controller.connect(15)
\* runs until scan() is inside its BleakScanner context.
process_begin ==
    /\ pc = "process"
    /\ thermostats' = <<>>
    /\ filter_' = argv.addresses
    /\ consumed_filter' = SetToSeq(argv.addresses)
    /\ found_devices' = {}
    /\ found_bulbs' = <<>>
    /\ duration' = CLI_TIMEOUT + Cardinality(argv.addresses)
    /\ start_time' = now
    /\ resolved' = <<>>
    /\ late' = FALSE
    /\ advertised' = {}
    /\ scanStarted' = TRUE
    /\ pc' = "scan"
    /\ UNCHANGED <<otherVars, entry, argv, exc, cliError, ncmd, dumpNext, now, ticked, overrun, devices,
                   awaiting, gexc,
                   sessVars, lastCall, callConnected, ioTargets, resolutionError,
                   validationError>>

\* The token the callback consumes for a device: its address if that is
\* outstanding, else its name.
MatchedToken(d, outstanding) ==
    IF InSeq(Address(d), outstanding) THEN Address(d) ELSE Name(d)

\* A match that takes every outstanding token.
ConsumeAll(outstanding, d) == <<>>

\* A match that leaves the token outstanding.
ConsumeNothing(outstanding, d) == outstanding

Consume(outstanding, d) == Remove(outstanding, MatchedToken(d, outstanding))

\* scan.callback(device, advertising_data).  fresh: the backend hands over a
\* BLEDevice object it has not handed over before (BLEDevice hashes by
\* identity, and a backend may or may not reuse the object of an address).
\* found_devices holds the devices of which an object was seen; found_bulbs
\* holds one entry per object added.  "device.address not in found_bulbs"
\* compares a string with BLEDevice objects and is always true.
callback(d, fresh) ==
    /\ pc \in Scanning
    /\ Len(found_bulbs) < MaxFound
    /\ advertised' = advertised \cup {d}
    /\ IF (fresh \/ d \notin found_devices) /\ Name(d) # <<>>
       THEN /\ found_devices' = found_devices \cup {d}
            /\ IF StartsWith(Upper(Address(d)), MAC_PREFIX)
               THEN IF consumed_filter # <<>>
                    THEN IF InSeq(Address(d), consumed_filter) \/ InSeq(Name(d), consumed_filter)
                         THEN /\ found_bulbs' = Append(found_bulbs, d)
                              /\ consumed_filter' = Consume(consumed_filter, d)
                              /\ resolved' = Append(resolved, MatchedToken(d, consumed_filter))
                              /\ late' = late
                         ELSE /\ late' = (late \/ Address(d) \in filter_ \/ Name(d) \in filter_)
                              /\ UNCHANGED <<found_bulbs, consumed_filter, resolved>>
                    ELSE IF filter_ = {}
                         THEN /\ found_bulbs' = Append(found_bulbs, d)
                              /\ UNCHANGED <<consumed_filter, resolved, late>>
                         ELSE /\ late' = (late \/ Address(d) \in filter_ \/ Name(d) \in filter_)
                              /\ UNCHANGED <<found_bulbs, consumed_filter, resolved>>
               ELSE UNCHANGED <<found_bulbs, consumed_filter, resolved, late>>
       ELSE UNCHANGED <<found_devices, found_bulbs, consumed_filter, resolved, late>>
    /\ UNCHANGED <<otherVars, entry, argv, pc, exc, cliError, ncmd, dumpNext, filter_, start_time,
                   duration, now, ticked, overrun, devices, thermostats, awaiting, gexc,
                   sessVars, histVars>>

\* time.time() advances while the scan sleeps.
Tick ==
    /\ pc = "scan"
    /\ now < start_time + duration
    /\ now' = now + 1
    /\ UNCHANGED <<otherVars, entry, argv, pc, exc, cliError, ncmd, dumpNext, filter_, consumed_filter,
                   found_devices, found_bulbs, start_time, duration, resolved, late,
                   advertised, ticked, overrun, devices, thermostats, awaiting, gexc,
                   sessVars, histVars>>

\* The loop of scan() wakes from asyncio.sleep(.1) and finds its condition
\* false: the scanner stops and scan() returns found_bulbs to connect().  The
\* locals of scan() end here, and nothing reads the clock after the scan.
scan_return ==
    /\ pc = "scan"
    /\ ~(consumed_filter # <<>> /\ start_time + duration > now)
    /\ devices' = found_bulbs
    /\ filter_' = {}
    /\ consumed_filter' = <<>>
    /\ found_devices' = {}
    /\ found_bulbs' = <<>>
    /\ start_time' = 0
    /\ duration' = 0
    /\ now' = 0
    /\ resolved' = <<>>
    /\ late' = FALSE
    /\ advertised' = {}
    /\ pc' = "scanned"
    /\ UNCHANGED <<otherVars, entry, argv, exc, cliError, ncmd, dumpNext, ticked, overrun, thermostats,
                   awaiting, gexc,
                   sessVars, histVars>>

\* --------------------------------------- ThermostatController.scan, in time
\* The devices in range of a scan.
ScanDevices == Devices \cup {"d4"}

\* The calls of scan().  ThermostatController.connect(timeout) calls
\* scan(duration=timeout + len(self.addresses), filter_=self.addresses);
\* ThermostatCLI.scan calls it without a filter.
ScanCalls ==
    {[filter_ |-> f, duration |-> t + Cardinality(f)] :
        f \in (SUBSET (KnownTokens \cup {Unknown(2)})) \ {{}}, t \in 0..MaxTimeout}
    \cup {[filter_ |-> {}, duration |-> t] : t \in 0..(MaxTimeout + 1)}

\* No controller and no session of one.
NoController ==
    /\ exc = "none" /\ cliError = "none" /\ ncmd = 0 /\ dumpNext = 0
    /\ devices = <<>> /\ thermostats = <<>> /\ awaiting = {} /\ gexc = "none"
    /\ is_connected = <<>> /\ todo = <<>> /\ tstate = <<>> /\ dstate = <<>>
    /\ opn = <<>> /\ wire = <<>> /\ everConnected = <<>> /\ discAttempted = <<>>
    /\ lastCall = [op |-> "none", exc |-> "none"]
    /\ callConnected = {} /\ ioTargets = {}
    /\ resolutionError = FALSE /\ validationError = FALSE

\* ThermostatCLI.scan: the scan is all that the program does.
NothingElse ==
    /\ argv = [first |-> "--scan", addresses |-> {}]
    /\ scanStarted = TRUE
    /\ NoController

\* scan(duration, filter_) is called: its locals are set up and the
\* BleakScanner, which holds the callback, is being started.
InitScan ==
    /\ entry = "scan"
    /\ pc = "scan_enter"
    /\ \E c \in ScanCalls :
          /\ filter_ = c.filter_
          /\ consumed_filter = SetToSeq(c.filter_)
          /\ duration = c.duration
    /\ found_devices = {}
    /\ found_bulbs = <<>>
    /\ start_time = 0
    /\ now = 0
    /\ resolved = <<>>
    /\ late = FALSE
    /\ advertised = {}
    /\ ticked = FALSE
    /\ overrun = 0
    /\ NothingElse
    /\ NoThermostat
    /\ NoApi
    /\ NoTemperature
    /\ NoValue
    /\ NoService

notScanVars == <<otherVars, entry, argv, exc, cliError, ncmd, dumpNext, thermostats, awaiting, gexc,
                 sessVars, histVars>>

\* The condition under which a filtered scan is to stop.
StopDue == consumed_filter = <<>> \/ now >= start_time + duration

\* "async with" is left and scan() returns found_bulbs.
ScanExit ==
    /\ devices' = found_bulbs
    /\ pc' = "scan_done"

\* The scanner is started: "if consumed_filter" chooses the polling loop
\* (whose first test follows at once), else "elif duration" the one sleep
\* of duration, else the endless loop.
scan_enter ==
    /\ pc = "scan_enter"
    /\ start_time' = now
    /\ IF consumed_filter # <<>>
       THEN IF duration > 0
            THEN pc' = "scan" /\ UNCHANGED devices
            ELSE ScanExit
       ELSE IF duration # 0
       THEN pc' = "scan_sleep" /\ UNCHANGED devices
       ELSE pc' = "scan_forever" /\ UNCHANGED devices
    /\ UNCHANGED <<filter_, consumed_filter, found_devices, found_bulbs, duration, now,
                   resolved, late, advertised, ticked, overrun, notScanVars>>

\* A second goes by: at most one during one sleep(.1) of the loop, and up to
\* the end of the sleep(duration).
scan_tick ==
    /\ \/ pc = "scan" /\ ~ticked
       \/ pc = "scan_sleep" /\ now < start_time + duration
    /\ now' = now + 1
    /\ ticked' = TRUE
    /\ overrun' = IF filter_ # {} /\ StopDue /\ overrun < 2 THEN overrun + 1 ELSE overrun
    /\ UNCHANGED <<pc, filter_, consumed_filter, found_devices, found_bulbs, start_time,
                   duration, resolved, late, advertised, devices, notScanVars>>

\* The test of "while consumed_filter and (start_time + duration) > time.time()".
LoopGoesOn == consumed_filter # <<>> /\ start_time + duration > now

\* asyncio.sleep(.1) ends and the loop tests its condition.
scan_wake ==
    /\ pc = "scan"
    /\ ticked' = FALSE
    /\ IF LoopGoesOn
       THEN UNCHANGED <<pc, devices>>
       ELSE ScanExit
    /\ UNCHANGED <<filter_, consumed_filter, found_devices, found_bulbs, start_time,
                   duration, now, resolved, late, advertised, overrun, notScanVars>>

\* The sleep that ends as soon as a device was found.
SleptUntilFound == now >= start_time + duration \/ found_bulbs # <<>>

\* asyncio.sleep(duration) has run for duration seconds.
Slept == now >= start_time + duration

\* "elif duration: await asyncio.sleep(duration)" ends.
scan_slept ==
    /\ pc = "scan_sleep"
    /\ Slept
    /\ ScanExit
    /\ UNCHANGED <<filter_, consumed_filter, found_devices, found_bulbs, start_time,
                   duration, now, resolved, late, advertised, ticked, overrun, notScanVars>>

NextScan ==
    \/ scan_enter
    \/ \E d \in ScanDevices, fresh \in BOOLEAN : callback(d, fresh)
    \/ scan_tick
    \/ scan_wake
    \/ scan_slept

\* ------------------------------------------------------------------ Thermostat
\* The steps of the operations of a session.  "op" marks the start of one
\* operation (setTemperature, requestName, ...); "write", "read", "sleep",
\* "connect" and "start_notify" are its awaits, in order.
\* An operation that returns when its write is acknowledged.
SendWithoutSettle == <<"op", "write">>

\* setTemperature, setModeAuto, requestStatus, ...: one write, then the
\* settle interval WAIT_NOTIFICATION.
Send == <<"op", "write", "sleep">>

ReadOp == <<"op", "read">>

\* requestProgram: one write per requested day, then one sleep.
RequestProgram(ndays) == <<"op">> \o [k \in 1..ndays |-> "write"] \o <<"sleep">>

\* DAY_EVERYDAY: range(Program.DAY_SATURDAY, Program.DAY_FRIDAY + 1)
EVERYDAY_REQUESTS == 7

\* ThermostatController.requestDeviceInfo on one thermostat: requestName,
\* requestVendor, requestSerialNo, requestStatus, requestProgram(DAY_EVERYDAY).
DeviceInfo == ReadOp \o ReadOp \o Send \o Send \o RequestProgram(EVERYDAY_REQUESTS)

\* example.do_stuff between connect and disconnect: 2 reads, then
\* requestSerialNo, requestStatus, setModeManual, setTemperature,
\* requestProgram(MONDAY), setProgram, setVacation, setComfortEcoTemperature,
\* setOffsetTemperature, setOpenWindow, setLock.
DoStuff ==
    ReadOp \o ReadOp \o Send \o Send \o Send \o Send \o RequestProgram(1)
           \o Send \o Send \o Send \o Send \o Send \o Send

\* A task of a session runs on to its next await.  rest: the steps left, n:
\* the operations begun, w: the wire so far, conn: is_connected.  BleakClient
\* raises BleakError at once on a read or write of a client that is not
\* connected.  io: a read or write was attempted.  The wire keeps the entries
\* of the operation under way and of the one before it.
Begin(rest, n, w0, conn) ==
    LET marked == rest # <<>> /\ Head(rest) = "op"
        r == IF marked THEN Tail(rest) ELSE rest
        m == IF marked THEN n + 1 ELSE n
        w == SelectSeq(w0, LAMBDA e : e[2] >= m - 1)
    IN  IF r = <<>>
        THEN [todo |-> <<>>, st |-> "done", opn |-> m, wire |-> w, io |-> FALSE]
        ELSE IF Head(r) \in {"write", "read"} /\ ~conn
        THEN [todo |-> <<>>, st |-> "raised", opn |-> m, wire |-> w, io |-> TRUE]
        ELSE [todo |-> r, st |-> "run", opn |-> m,
              wire |-> IF Head(r) = "write" THEN Append(w, <<"w", m>>) ELSE w,
              io |-> Head(r) \in {"write", "read"}]

\* The caller awaits the connect or command tasks of the sessions in awaiting.
TaskGather == pc \in {"await_connect", "await_cmd"}

\* asyncio.gather without return_exceptions: the first exception of a child
\* is the result of the gather; later ones are dropped.
Gathered(i, e) == IF TaskGather /\ i \in awaiting /\ gexc = "none" THEN e ELSE gexc

Running(i, step) == tstate[i] = "run" /\ todo[i] # <<>> /\ Head(todo[i]) = step

\* The task of session i goes on as r says.
Proceed(i, r) ==
    /\ todo' = [todo EXCEPT ![i] = r.todo]
    /\ tstate' = [tstate EXCEPT ![i] = r.st]
    /\ opn' = [opn EXCEPT ![i] = r.opn]
    /\ wire' = [wire EXCEPT ![i] = r.wire]
    /\ ioTargets' = IF r.io THEN ioTargets \cup {i} ELSE ioTargets
    /\ gexc' = IF r.st = "raised" THEN Gathered(i, "BleakError") ELSE gexc

\* The task of session i ends with exception e.
Raise(i, e) ==
    /\ todo' = [todo EXCEPT ![i] = <<>>]
    /\ tstate' = [tstate EXCEPT ![i] = "raised"]
    /\ gexc' = Gathered(i, e)
    /\ UNCHANGED <<opn, wire, ioTargets>>

callerVars == <<otherVars, entry, argv, pc, exc, cliError, ncmd, dumpNext, scanVars, devices,
                thermostats, awaiting>>

\* Thermostat.connect: super().connect() ends.  out = "ok": the link is up;
\* notify: the notification characteristic exists and supports notify, so
\* start_notify is awaited.  out = "down": connect returned and is_connected
\* is false, so connect raises EqivaException.  Otherwise the transport raised.
connect(i, out, notify) ==
    /\ pc \in Awaits
    /\ Running(i, "connect")
    /\ IF out = "ok"
       THEN /\ is_connected' = [is_connected EXCEPT ![i] = TRUE]
            /\ everConnected' = [everConnected EXCEPT ![i] = TRUE]
            /\ Proceed(i, Begin(IF notify THEN <<"start_notify">> ELSE <<>>,
                                opn[i], wire[i], TRUE))
       ELSE /\ Raise(i, IF out = "down" THEN "EqivaException" ELSE out)
            /\ UNCHANGED <<is_connected, everConnected>>
    /\ UNCHANGED <<callerVars, dstate, discAttempted, lastCall, callConnected,
                   scanStarted, resolutionError, validationError>>

\* Thermostat.connect: start_notify ends; its exception is caught and logged.
start_notify(i) ==
    /\ pc \in Awaits
    /\ Running(i, "start_notify")
    /\ Proceed(i, Begin(Tail(todo[i]), opn[i], wire[i], is_connected[i]))
    /\ UNCHANGED <<callerVars, is_connected, dstate, everConnected, discAttempted,
                   lastCall, callConnected, scanStarted, resolutionError, validationError>>

\* write_gatt_char(..., response=True) ends: acknowledged (only on a link that
\* is up) or BleakError.
write_gatt_char(i, ok) ==
    /\ pc \in Awaits
    /\ Running(i, "write")
    /\ IF ok
       THEN /\ is_connected[i]
            /\ Proceed(i, Begin(Tail(todo[i]), opn[i], Append(wire[i], <<"a", opn[i]>>),
                                is_connected[i]))
       ELSE Raise(i, "BleakError")
    /\ UNCHANGED <<callerVars, is_connected, dstate, everConnected, discAttempted,
                   lastCall, callConnected, scanStarted, resolutionError, validationError>>

\* read_gatt_char ends (requestName, requestVendor).
read_gatt_char(i, ok) ==
    /\ pc \in Awaits
    /\ Running(i, "read")
    /\ IF ok
       THEN /\ is_connected[i]
            /\ Proceed(i, Begin(Tail(todo[i]), opn[i], wire[i], is_connected[i]))
       ELSE Raise(i, "BleakError")
    /\ UNCHANGED <<callerVars, is_connected, dstate, everConnected, discAttempted,
                   lastCall, callConnected, scanStarted, resolutionError, validationError>>

\* asyncio.sleep(Thermostat.WAIT_NOTIFICATION) ends: the settle interval of
\* the operation has passed.
sleep(i) ==
    /\ pc \in Awaits
    /\ Running(i, "sleep")
    /\ Proceed(i, Begin(Tail(todo[i]), opn[i], Append(wire[i], <<"s", opn[i]>>),
                        is_connected[i]))
    /\ UNCHANGED <<callerVars, is_connected, dstate, everConnected, discAttempted,
                   lastCall, callConnected, scanStarted, resolutionError, validationError>>

\* Thermostat.disconnect: super().disconnect() ends, with the link down or
\* with an exception of the transport.  (A stuck disconnect never ends.)
disconnect(i, out) ==
    /\ pc \in Awaits
    /\ dstate[i] = "run"
    /\ IF out = "ok"
       THEN /\ is_connected' = [is_connected EXCEPT ![i] = FALSE]
            /\ dstate' = [dstate EXCEPT ![i] = "done"]
            /\ gexc' = gexc
       ELSE /\ dstate' = [dstate EXCEPT ![i] = "raised"]
            /\ gexc' = IF pc = "await_disc" /\ i \in awaiting /\ gexc = "none" THEN out ELSE gexc
            /\ UNCHANGED is_connected
    /\ UNCHANGED <<callerVars, todo, tstate, opn, wire, everConnected, discAttempted,
                   histVars>>

\* The device goes out of range: the backend's disconnected callback runs.
LinkDrop(i) ==
    /\ pc \in Awaits
    /\ i \in Sessions
    /\ is_connected[i]
    /\ is_connected' = [is_connected EXCEPT ![i] = FALSE]
    /\ UNCHANGED <<callerVars, gexc, todo, tstate, dstate, opn, wire, everConnected,
                   discAttempted, histVars>>

\* --------------------------------------------------------- ThermostatController
\* A connect() that gives up only when the scan found nothing.
IncompleteOnlyIfEmpty(found, addresses) == Len(found) = 0

\* connect(): fewer devices found than addresses given.
Incomplete(found, addresses) == Len(found) < Cardinality(addresses)

Rank(d) == CASE d = "d1" -> 1 [] d = "d2" -> 2 [] d = "d3" -> 3

\* "for device in devices" walks a set: the order of the sessions is
\* arbitrary, and the sessions behave alike, so one order stands for all.
Canon(found) == SortSeq(found, LAMBDA a, b : Rank(a) < Rank(b))

Fresh(n, v) == [i \in 1..n |-> v]

\* ThermostatController.connect after scan() returned.
connect_afterScan ==
    /\ pc = "scanned"
    /\ IF Incomplete(devices, argv.addresses)
       THEN /\ resolutionError' = TRUE
            /\ exc' = "EqivaException"
            /\ lastCall' = [op |-> "connect", exc |-> "EqivaException"]
            /\ pc' = "finally"
            /\ UNCHANGED <<devices, thermostats, awaiting, gexc, sessVars>>
       ELSE /\ thermostats' = Canon(devices)
            /\ devices' = Canon(devices)
            /\ is_connected' = Fresh(Len(devices), FALSE)
            /\ todo' = Fresh(Len(devices), <<"connect">>)
            /\ tstate' = Fresh(Len(devices), "run")
            /\ dstate' = Fresh(Len(devices), "none")
            /\ opn' = Fresh(Len(devices), 0)
            /\ wire' = Fresh(Len(devices), <<>>)
            /\ everConnected' = Fresh(Len(devices), FALSE)
            /\ discAttempted' = Fresh(Len(devices), FALSE)
            /\ awaiting' = 1..Len(devices)
            /\ gexc' = "none"
            /\ pc' = "await_connect"
            /\ UNCHANGED <<exc, lastCall, resolutionError>>
    /\ UNCHANGED <<otherVars, entry, argv, cliError, ncmd, dumpNext, scanVars, callConnected, ioTargets,
                   scanStarted, validationError>>

\* asyncio.run: the caller coroutine has ended with exception e ("none" if
\* none); the tasks still pending are cancelled and the loop is closed.
\* ThermostatCLI.__init__ logs EqivaException and TimeoutError; anything else
\* leaves the program with a traceback.
asyncio_run_end(e, ts, ds) ==
    /\ tstate' = [i \in Sessions |-> IF ts[i] = "run" THEN "cancelled" ELSE ts[i]]
    /\ dstate' = [i \in Sessions |-> IF ds[i] = "run" THEN "cancelled" ELSE ds[i]]
    /\ todo' = [i \in Sessions |-> <<>>]
    /\ exc' = e
    /\ cliError' = e
    /\ pc' = "exit"

GatherDone ==
    \/ gexc # "none"
    \/ \A i \in awaiting : IF pc = "await_disc" THEN dstate[i] = "done" ELSE tstate[i] = "done"

\* The sessions a fleet operation is applied to.
Connected == {i \in Sessions : is_connected[i]}

\* A fleet operation of ThermostatController (setTemperature, requestStatus,
\* ...): one task per session in targets, each started with steps.
FanOut(targets, steps) ==
    LET r == [i \in Sessions |-> Begin(steps, opn[i], wire[i], is_connected[i])]
    IN  /\ todo' = [i \in Sessions |-> IF i \in targets THEN r[i].todo ELSE todo[i]]
        /\ tstate' = [i \in Sessions |-> IF i \in targets THEN r[i].st ELSE tstate[i]]
        /\ opn' = [i \in Sessions |-> IF i \in targets THEN r[i].opn ELSE opn[i]]
        /\ wire' = [i \in Sessions |-> IF i \in targets THEN r[i].wire ELSE wire[i]]
        /\ callConnected' = Connected
        /\ ioTargets' = {i \in targets : r[i].io}
        /\ awaiting' = targets
        /\ gexc' = "none"

\* requestDeviceInfo: "for thermostat in self.thermostats", awaited one after
\* the other by the caller itself; the first await of thermostat i.
DeviceInfoOf(i, called) ==
    LET r == Begin(DeviceInfo, opn[i], wire[i], is_connected[i])
    IN  /\ todo' = [todo EXCEPT ![i] = r.todo]
        /\ tstate' = [tstate EXCEPT ![i] = r.st]
        /\ opn' = [opn EXCEPT ![i] = r.opn]
        /\ wire' = [wire EXCEPT ![i] = r.wire]
        /\ callConnected' = called
        /\ ioTargets' = IF i = 1 THEN {i} ELSE ioTargets \cup {i}
        /\ awaiting' = {i}
        /\ gexc' = "none"
        /\ IF r.st = "raised"
           THEN /\ exc' = "BleakError"
                /\ lastCall' = [op |-> "requestDeviceInfo", exc |-> "BleakError"]
                /\ dumpNext' = 0
                /\ pc' = "finally"
           ELSE /\ dumpNext' = i + 1
                /\ pc' = "await_cmd"
                /\ UNCHANGED <<exc, lastCall>>

\* The caller wakes from the gather it awaits.  After the gather of
\* disconnect() the caller coroutine ends without another await.
gather_resume ==
    /\ pc \in {"await_connect", "await_cmd", "await_disc"}
    /\ GatherDone
    /\ IF pc = "await_cmd" /\ gexc = "none" /\ dumpNext \in Sessions
       THEN /\ DeviceInfoOf(dumpNext, callConnected)
            /\ UNCHANGED <<cliError, is_connected, dstate, everConnected, discAttempted>>
       ELSE /\ lastCall' = [op |-> CASE pc = "await_connect" -> "connect"
                                     [] pc = "await_cmd" ->
                                            IF dumpNext # 0 THEN "requestDeviceInfo"
                                            ELSE "fanout"
                                     [] pc = "await_disc" -> "disconnect",
                            exc |-> gexc]
            /\ dumpNext' = 0
            /\ awaiting' = {}
            /\ gexc' = "none"
            /\ IF pc = "await_disc"
               THEN asyncio_run_end(IF gexc # "none" THEN gexc ELSE exc, tstate, dstate)
               ELSE /\ exc' = gexc
                    /\ pc' = IF gexc # "none" THEN "finally" ELSE "loop"
                    /\ UNCHANGED <<cliError, todo, tstate, dstate>>
            /\ UNCHANGED <<is_connected, opn, wire, everConnected, discAttempted,
                           callConnected, ioTargets>>
    /\ UNCHANGED <<otherVars, entry, argv, ncmd, scanVars, devices, thermostats,
                   scanStarted, resolutionError, validationError>>

\* ------------------------------------------------------ ThermostatCLI.process
\* Temperature.__init__
TemperatureRejects(t) == t < -45 \/ t > 300 \/ t % 5 # 0

\* OpenWindowConfig.__init__
OpenWindowConfigRejects(m) == m < 0 \/ m > 995 \/ m % 5 # 0

\* Program.__init__ rejects an empty list and more than 7 events.
ProgramRejects(nevents) == nevents = 0 \/ nevents > MAX_EVENTS

\* process() builds one Event per pair and always appends the closing one.
\* (Event.__init__ accepts every hour and minute the pattern lets through.)
EventsOf(c) == c.pairs + 1

\* The exception the body of the loop raises for command c before it calls
\* the controller ("none" if none).  "vacation": datetime.strptime raises
\* ValueError for a date that is no day of the calendar.
BuildError(c) ==
    CASE c.name \in {"temp", "comforteco", "offset"} ->
            IF ~c.word /\ TemperatureRejects(c.temp) THEN "EqivaException" ELSE "none"
      [] c.name = "vacation" ->
            IF TemperatureRejects(c.temp) THEN "EqivaException"
            ELSE IF ~c.date THEN "ValueError" ELSE "none"
      [] c.name = "openwindow" ->
            IF TemperatureRejects(c.temp) \/ OpenWindowConfigRejects(c.minutes)
            THEN "EqivaException" ELSE "none"
      [] c.name = "program" ->
            IF ArgsOf(c) <= 1 THEN "none"
            ELSE IF ProgramRejects(EventsOf(c)) THEN "EqivaException" ELSE "none"
      [] OTHER -> "none"

\* The writes of Thermostat.requestProgram(day).
DaysOf(day) == CASE day = "" -> EVERYDAY_REQUESTS [] day = "weekend" -> 2 [] OTHER -> 1

\* The steps of the Thermostat operation command c fans out.
StepsOf(c) ==
    IF c.name \in ReadCommands THEN ReadOp
    ELSE IF c.name = "program" /\ ArgsOf(c) <= 1 THEN RequestProgram(DaysOf(c.day))
    ELSE Send

\* One pass of "for command in commands" up to its await.
process_command(c) ==
    /\ entry = "cli"
    /\ pc = "loop"
    /\ ncmd < MaxCommands
    /\ ncmd' = ncmd + 1
    /\ IF BuildError(c) # "none"
       THEN /\ exc' = BuildError(c)
            /\ validationError' = (validationError \/ BuildError(c) = "EqivaException")
            /\ pc' = "finally"
            /\ UNCHANGED <<dumpNext, awaiting, gexc, todo, tstate, opn, wire, lastCall,
                           callConnected, ioTargets>>
       ELSE IF c.name \in PrintCommands
       THEN UNCHANGED <<pc, exc, dumpNext, awaiting, gexc, todo, tstate, opn, wire, lastCall,
                        callConnected, ioTargets, validationError>>
       ELSE IF c.name = "dump"
       THEN IF Sessions = {}
            THEN UNCHANGED <<pc, exc, dumpNext, awaiting, gexc, todo, tstate, opn, wire,
                             lastCall, callConnected, ioTargets, validationError>>
            ELSE /\ DeviceInfoOf(1, Connected)
                 /\ UNCHANGED validationError
       ELSE /\ FanOut(Connected, StepsOf(c))
            /\ IF Connected = {}
               THEN /\ lastCall' = [op |-> "fanout", exc |-> "none"]
                    /\ pc' = "loop"
               ELSE /\ pc' = "await_cmd"
                    /\ UNCHANGED lastCall
            /\ UNCHANGED <<exc, dumpNext, validationError>>
    /\ UNCHANGED <<otherVars, entry, argv, cliError, scanVars, devices, thermostats, is_connected,
                   dstate, everConnected, discAttempted, scanStarted, resolutionError>>

\* "for command in commands" is exhausted.
process_end ==
    /\ entry = "cli"
    /\ pc = "loop"
    /\ ncmd >= 1
    /\ pc' = "finally"
    /\ UNCHANGED <<otherVars, entry, argv, exc, cliError, ncmd, dumpNext, scanVars, devices, thermostats,
                   awaiting, gexc, sessVars, histVars>>

\* ThermostatController.disconnect, called with exception e pending: one
\* task per connected session.  asyncio.gather() of nothing is done at once.
ControllerDisconnect(e) ==
    /\ discAttempted' = [i \in Sessions |-> discAttempted[i] \/ i \in Connected]
    /\ awaiting' = Connected
    /\ gexc' = "none"
    /\ IF Connected = {}
       THEN /\ lastCall' = [op |-> "disconnect", exc |-> "none"]
            /\ asyncio_run_end(e, tstate, dstate)
       ELSE /\ dstate' = [i \in Sessions |-> IF i \in Connected THEN "run" ELSE dstate[i]]
            /\ exc' = e
            /\ pc' = "await_disc"
            /\ UNCHANGED <<lastCall, cliError, todo, tstate>>

\* The except clauses and the finally clause of process(): EqivaException and
\* BleakError are logged, any other exception is raised again after the
\* finally clause.
process_finally ==
    /\ entry = "cli"
    /\ pc = "finally"
    /\ ControllerDisconnect(IF exc \in {"EqivaException", "BleakError"} THEN "none" ELSE exc)
    /\ UNCHANGED <<otherVars, entry, argv, ncmd, dumpNext, scanVars, devices, thermostats,
                   is_connected, opn, wire, everConnected, callConnected,
                   ioTargets, scanStarted, resolutionError, validationError>>

\* --------------------------------------------------------------- example.py
\* do_stuff: thermostat = Thermostat('00:1A:22:16:3D:E7'); await thermostat.connect()
\* (do_stuff1, the function the script runs, has the same shape with fewer
\* operations).  An await of do_stuff is a gather of the one task.
do_stuff_begin ==
    /\ entry = "example"
    /\ pc = "init"
    /\ thermostats' = <<"d1">>
    /\ is_connected' = Fresh(1, FALSE)
    /\ todo' = Fresh(1, <<"connect">>)
    /\ tstate' = Fresh(1, "run")
    /\ dstate' = Fresh(1, "none")
    /\ opn' = Fresh(1, 0)
    /\ wire' = Fresh(1, <<>>)
    /\ everConnected' = Fresh(1, FALSE)
    /\ discAttempted' = Fresh(1, FALSE)
    /\ awaiting' = {1}
    /\ gexc' = "none"
    /\ pc' = "await_connect"
    /\ UNCHANGED <<otherVars, entry, argv, exc, cliError, ncmd, dumpNext, scanVars, devices, histVars>>

\* do_stuff: the operations between connect and disconnect, awaited in turn.
do_stuff_body ==
    /\ entry = "example"
    /\ pc = "loop"
    /\ ncmd = 0
    /\ ncmd' = 1
    /\ FanOut({1}, DoStuff)
    /\ IF tstate'[1] = "raised"
       THEN pc' = "finally" /\ exc' = "BleakError"
       ELSE pc' = "await_cmd" /\ exc' = exc
    /\ UNCHANGED <<otherVars, entry, argv, cliError, dumpNext, scanVars, devices, thermostats,
                   is_connected, dstate, everConnected, discAttempted, lastCall,
                   scanStarted, resolutionError, validationError>>

\* do_stuff: the try block ended, normally or with an exception.  Only
\* EqivaException is caught; "if thermostat: await thermostat.disconnect()"
\* follows the try statement and is not reached by any other exception.
do_stuff_end ==
    /\ entry = "example"
    /\ \/ pc = "loop" /\ ncmd = 1
       \/ pc = "finally"
    /\ IF exc \in {"none", "EqivaException"}
       THEN /\ exc' = "none"
            /\ dstate' = [dstate EXCEPT ![1] = "run"]
            /\ discAttempted' = [discAttempted EXCEPT ![1] = TRUE]
            /\ awaiting' = {1}
            /\ gexc' = "none"
            /\ pc' = "await_disc"
            /\ UNCHANGED <<cliError, todo, tstate>>
       ELSE /\ asyncio_run_end(exc, tstate, dstate)
            /\ UNCHANGED <<discAttempted, awaiting, gexc>>
    /\ UNCHANGED <<otherVars, entry, argv, ncmd, dumpNext, scanVars, devices, thermostats,
                   is_connected, opn, wire, everConnected, histVars>>

\* ------------------------------------------------------ Thermostat.onNotify
\* bytes[k], len(bytes) > k and bytes[a:b] of Python, on sequences.
Byte(f, k) == f[k + 1]

Has(f, k) == Len(f) > k

Slice(f, a, b) == SubSeq(f, a + 1, IF b < Len(f) THEN b ELSE Len(f))

\* int(): the fraction is dropped, towards zero.
Trunc(a, b) == IF a >= 0 THEN a \div b ELSE -((-a) \div b)

\* Temperature.toByte with one degree too many.
toByteOffByOne(v) == Trunc(v * 2, 10) + 2

\* Temperature.toByte: int(self.valueC * 2), of v tenths of a degree.
toByte(v) == Trunc(v * 2, 10)

\* A fromByte that takes raw for a byte of 0..255.
fromByteUnsigned(raw) == (raw % 256) * 5

\* Temperature.fromByte: t.valueC = raw / 2, in tenths of a degree.
fromByte(raw) == raw * 5

\* The days of month m of year y, as datetime counts them.
DaysInMonth(y, m) ==
    CASE m \in {4, 6, 9, 11} -> 30
      [] m = 2 -> IF y % 4 = 0 /\ (y % 100 # 0 \/ y % 400 = 0) THEN 29 ELSE 28
      [] OTHER -> 31

\* A datetime() that takes any numbers.
Vacation_raisesNever(b) == FALSE

\* Vacation.fromBytes: datetime() raises ValueError on a month, a day or
\* an hour out of range (the year, 2000 to 2255, and the minute are in range).
Vacation_raises(b) ==
    b[1] > 0 /\ (b[4] \notin 1..12 \/ b[1] > DaysInMonth(2000 + b[2], b[4]) \/ b[3] \div 2 > 23)

\* Vacation.fromBytes on the 4 bytes day, year, half hours, month: until as
\* <<year, month, day, hour, minute, second>>, <<>> for None.
Vacation_fromBytes(b) ==
    IF b[1] > 0
    THEN <<2000 + b[2], b[4], b[1], b[3] \div 2, (b[3] % 2) * 30, 0>>
    ELSE <<>>

\* OpenWindowConfig.fromBytes: temperature and minutes.
OpenWindowConfig_fromBytes(b) == <<fromByte(b[1]), b[2] * 5>>

\* Event.fromBytes: temperature, hour, minute.
Event_fromBytes(b) == <<fromByte(b[1]), b[2] \div 6, (b[2] % 6) * 10>>

\* Program.fromBytes: 7 events out of 14 bytes.
Program_fromBytes(b) == [i \in 1..7 |-> Event_fromBytes(SubSeq(b, 2 * i - 1, 2 * i))]

NOTIFY_SERIAL == <<1>>

NOTIFY_STATUS == <<2, 1>>

NOTIFY_PROGRAM_CONFIRM == <<2, 2>>

NOTIFY_PROGRAM_REQUEST == <<33>>

\* A dispatch on the first byte only.
FrameKindByFirstByte(f) ==
    IF f = <<>> THEN "none"
    ELSE CASE f[1] = 1 -> "serial" [] f[1] = 2 -> "status" [] f[1] = 33 -> "program"
           [] OTHER -> "none"

\* The branch of the if/elif chain of onNotify that bytes.startswith selects.
FrameKind(f) ==
    IF StartsWith(f, NOTIFY_SERIAL) THEN "serial"
    ELSE IF StartsWith(f, NOTIFY_STATUS) THEN "status"
    ELSE IF StartsWith(f, NOTIFY_PROGRAM_REQUEST) THEN "program"
    ELSE IF StartsWith(f, NOTIFY_PROGRAM_CONFIRM) THEN "confirm"
    ELSE "none"

\* The result of a decoding: the attributes as it leaves them, and the
\* exception it raised ("none" if none).
Ok(st) == [state |-> st, error |-> "none"]

Err(st, e) == [state |-> st, error |-> e]

\* NOTIFY_SERIAL: serialNumber out of bytes[4:-1], each less 0x30 (bytearray
\* raises ValueError on a negative number), then firmware = bytes[1] / 100.
SerialDecode(st, f) ==
    LET chars == SubSeq(f, 5, Len(f) - 1)
    IN  IF \E i \in DOMAIN chars : chars[i] < 48 THEN Err(st, "ValueError")
        ELSE IF \E i \in DOMAIN chars : chars[i] - 48 > 127 THEN Err(st, "UnicodeDecodeError")
        ELSE LET s1 == [st EXCEPT !.serialNumber = [i \in DOMAIN chars |-> chars[i] - 48]]
             IN  IF ~Has(f, 1) THEN Err(s1, "IndexError")
                 ELSE Ok([s1 EXCEPT !.firmware = Byte(f, 1)])

\* Thermostat.py: the optional fields after a frame that is not 15 bytes long.
ShortStatus(st, f) ==
    Ok([st EXCEPT !.openWindowConfig = NoneObject, !.comfortTemperature = None,
                  !.ecoTemperature = None, !.offsetTemperature = None])

\* Thermostat.py, from the vacation on: bytes[6:10] if len(bytes) > 9, and
\* the optional fields if len(bytes) == 15.
PackageStatusTail(st, f) ==
    LET s1 == [st EXCEPT !.vacation =
                  IF Len(f) > 9 THEN Vacation_fromBytes(Slice(f, 6, 10)) ELSE NoneObject]
    IN  IF Len(f) > 9 /\ Vacation_raises(Slice(f, 6, 10)) THEN Err(st, "ValueError")
        ELSE IF Len(f) = 15
        THEN Ok([s1 EXCEPT !.openWindowConfig = OpenWindowConfig_fromBytes(Slice(f, 10, 12)),
                           !.comfortTemperature = fromByte(Byte(f, 12)),
                           !.ecoTemperature = fromByte(Byte(f, 13)),
                           !.offsetTemperature = fromByte(Byte(f, 14) - 7)])
        ELSE ShortStatus(s1, f)

\* eqiva.py, from the vacation on: every field is read, whatever the length.
ScriptStatusTail(st, f) ==
    LET v == Slice(f, 6, 10)
    IN  IF v = <<>> \/ (v[1] > 0 /\ Len(v) < 4) THEN Err(st, "IndexError")
        ELSE IF Vacation_raises(v) THEN Err(st, "ValueError")
        ELSE LET s1 == [st EXCEPT !.vacation = Vacation_fromBytes(v)]
             IN  IF ~Has(f, 11) THEN Err(s1, "IndexError")
                 ELSE LET s2 == [s1 EXCEPT !.openWindowConfig =
                                     OpenWindowConfig_fromBytes(Slice(f, 10, 12))]
                      IN  IF ~Has(f, 12) THEN Err(s2, "IndexError")
                          ELSE LET s3 == [s2 EXCEPT !.comfortTemperature = fromByte(Byte(f, 12))]
                               IN  IF ~Has(f, 13) THEN Err(s3, "IndexError")
                                   ELSE LET s4 == [s3 EXCEPT !.ecoTemperature =
                                                       fromByte(Byte(f, 13))]
                                        IN  IF ~Has(f, 14) THEN Err(s4, "IndexError")
                                            ELSE Ok([s4 EXCEPT !.offsetTemperature =
                                                        fromByte(Byte(f, 14) - 7)])

\* NOTIFY_STATUS: mode, valve and temperature, then the rest as the class does.
StatusDecode(im, st, f) ==
    IF ~Has(f, 2) THEN Err(st, "IndexError")
    ELSE LET s1 == [st EXCEPT !.mode = Byte(f, 2)]
         IN  IF ~Has(f, 3) THEN Err(s1, "IndexError")
             ELSE LET s2 == [s1 EXCEPT !.valve = Byte(f, 3)]
                  IN  IF ~Has(f, 5) THEN Err(s2, "IndexError")
                      ELSE LET s3 == [s2 EXCEPT !.temperature = fromByte(Byte(f, 5))]
                           IN  IF im = "package" THEN PackageStatusTail(s3, f)
                               ELSE ScriptStatusTail(s3, f)

\* What Event.fromBytes raises on event i of bytes[2:]: IndexError on less
\* than two bytes, EqivaException of Event.__init__ on an hour above 24.
EventError(f, i) ==
    LET b == Slice(f, 2 * i, 2 * i + 2)
    IN  IF Len(b) < 2 THEN "IndexError"
        ELSE IF b[2] \div 6 > 24 THEN "EqivaException"
        ELSE "none"

\* A NOTIFY_PROGRAM_REQUEST that stores the program under the day after.
ProgramDecodeDayAfter(st, f) ==
    LET bad == {i \in 1..7 : EventError(f, i) # "none"}
    IN  IF ~Has(f, 1) THEN Err(st, "IndexError")
        ELSE IF bad # {}
        THEN Err(st, EventError(f, CHOOSE i \in bad : \A j \in bad : i <= j))
        ELSE IF Byte(f, 1) > 6 THEN Err(st, "IndexError")
        ELSE Ok([st EXCEPT !.programs[(Byte(f, 1) + 1) % 7] = Program_fromBytes(SubSeq(f, 3, 16))])

\* NOTIFY_PROGRAM_REQUEST: day = bytes[1], Program.fromBytes(bytes[2:]),
\* self.programs[day] = program.
ProgramDecode(st, f) ==
    LET bad == {i \in 1..7 : EventError(f, i) # "none"}
    IN  IF ~Has(f, 1) THEN Err(st, "IndexError")
        ELSE IF bad # {}
        THEN Err(st, EventError(f, CHOOSE i \in bad : \A j \in bad : i <= j))
        ELSE IF Byte(f, 1) > 6 THEN Err(st, "IndexError")
        ELSE Ok([st EXCEPT !.programs[Byte(f, 1)] = Program_fromBytes(SubSeq(f, 3, 16))])

\* NOTIFY_PROGRAM_CONFIRM: only Program.DAYS[bytes[2]] is logged.
ConfirmDecode(st, f) ==
    IF ~Has(f, 2) \/ Byte(f, 2) > 11 THEN Err(st, "IndexError") ELSE Ok(st)

\* onNotify(device, bytes) of the class im on the attributes st.
Decode(im, st, f) ==
    CASE FrameKind(f) = "serial" -> SerialDecode(st, f)
      [] FrameKind(f) = "status" -> StatusDecode(im, st, f)
      [] FrameKind(f) = "program" -> ProgramDecode(st, f)
      [] FrameKind(f) = "confirm" -> ConfirmDecode(st, f)
      [] OTHER -> Ok(st)

\* --------------------------------------------- one Thermostat and its caller
\* Notification frames the device sends: the serial number, the status in
\* 15, 10 and 6 bytes, a program, a confirmation, and frames of no known kind.
StatusA == <<2, 1, 8, 0, 4, 40, 0, 0, 0, 0, 24, 3, 42, 34, 7>>

StatusB == <<2, 1, 9, 50, 4, 44, 5, 30, 20, 6, 20, 6, 44, 36, 9>>

UnknownFrames == {<<>>, <<2>>, <<2, 3, 9>>, <<34, 2, 34, 36>>}

Frames ==
    {<<1, 110, 0, 0, 97, 98, 0>>, <<1>>, StatusA, StatusB,
     Slice(StatusA, 0, 10), Slice(StatusB, 0, 6),
     <<33, 2, 34, 36, 42, 132, 34, 144, 0, 0, 0, 0, 0, 0, 0, 0>>, <<33, 2, 34>>,
     <<2, 2, 2>>}
    \cup UnknownFrames

\* The methods the caller calls after connect.
Methods == {"setTemperature", "requestStatus", "requestProgram", "requestName",
            "requestVendor"}

\* The awaits of a method whose send sleeps the settle interval twice.
MethodStepsSettlingTwice(m) ==
    Tail(CASE m \in {"requestName", "requestVendor"} -> ReadOp
           [] m = "requestProgram" -> RequestProgram(2)
           [] OTHER -> Send \o <<"sleep">>)

\* The awaits of method m, in order (requestProgram: of the weekend).
MethodSteps(m) ==
    Tail(CASE m \in {"requestName", "requestVendor"} -> ReadOp
           [] m = "requestProgram" -> RequestProgram(2)
           [] OTHER -> Send)

\* A method that keeps what it sent as the state of the device.
ReturnedOptimistic(m, st) ==
    CASE m = "requestName" -> [st EXCEPT !.name = "CC-RT-BLE"]
      [] m = "requestVendor" -> [st EXCEPT !.vendor = "eq-3"]
      [] m = "setTemperature" -> [st EXCEPT !.temperature = 205]
      [] OTHER -> st

\* The attributes when method m returns: requestName and requestVendor store
\* what they read.
Returned(m, st) ==
    CASE m = "requestName" -> [st EXCEPT !.name = "CC-RT-BLE"]
      [] m = "requestVendor" -> [st EXCEPT !.vendor = "eq-3"]
      [] OTHER -> st

InitThermostat ==
    /\ entry = "thermostat"
    /\ pc = "thermostat"
    /\ argv = [first |-> "args", addresses |-> {}]
    /\ scanStarted = FALSE
    /\ NoController
    /\ filter_ = {} /\ consumed_filter = <<>> /\ found_devices = {} /\ found_bulbs = <<>>
    /\ start_time = 0 /\ duration = 0 /\ now = 0 /\ resolved = <<>> /\ late = FALSE
    /\ advertised = {} /\ ticked = FALSE /\ overrun = 0
    /\ impl \in {"package", "script"}
    /\ link = FALSE /\ notifying = FALSE /\ warnings = 0
    /\ state = NewState /\ method = "none" /\ ahead = <<>>
    /\ acks = 0 /\ settles = 0 /\ heard = FALSE /\ outcome = "none" /\ calls = 0
    /\ frame = NoFrame /\ decodeError = "none"
    /\ NoApi
    /\ NoTemperature
    /\ NoValue
    /\ NoService

\* The variables of ThermostatCLI, example.py and ThermostatController.
cliVars == <<entry, argv, pc, exc, cliError, ncmd, dumpNext, scanVars, devices, thermostats,
             awaiting, gexc, sessVars, histVars>>

\* The variables outside the Thermostat object.
mainVars == <<cliVars, apiVars, temperatureVars, valueVars, serviceVars>>

\* The method goes on to its next await, or returns.
Advance ==
    /\ ahead' = Tail(ahead)
    /\ IF Tail(ahead) = <<>>
       THEN outcome' = "ok" /\ state' = Returned(method, state)
       ELSE UNCHANGED <<outcome, state>>

\* The method ends with exception e.
Fail(e) ==
    /\ ahead' = <<>>
    /\ outcome' = e
    /\ UNCHANGED state

\* The step decodes no frame.
NoDecode == frame' = NoFrame /\ decodeError' = "none"

\* The caller awaits thermostat.connect(): super().connect() is awaited.
Thermostat_connect ==
    /\ entry = "thermostat"
    /\ method = "none"
    /\ method' = "connect"
    /\ ahead' = <<"connect">>
    /\ calls' = 1
    /\ NoDecode
    /\ UNCHANGED <<mainVars, impl, link, notifying, warnings, state, acks, settles, heard,
                   outcome>>

\* super().connect() ends.  out = "ok": is_connected is true; characteristic:
\* the notification characteristic exists and has "notify" among its
\* properties.  Thermostat.py awaits start_notify if it has, and logs a
\* warning if not; eqiva.py awaits start_notify at once.  out = "down":
\* connect returned and is_connected is false.
BleakClient_connect(out, characteristic) ==
    /\ entry = "thermostat"
    /\ ahead # <<>> /\ Head(ahead) = "connect"
    /\ IF out = "ok"
       THEN /\ link' = TRUE
            /\ IF impl = "script" \/ characteristic
               THEN ahead' = <<"start_notify">> /\ UNCHANGED <<warnings, outcome>>
               ELSE ahead' = <<>> /\ warnings' = warnings + 1 /\ outcome' = "ok"
       ELSE /\ ahead' = <<>>
            /\ outcome' = IF out = "down" THEN "EqivaException" ELSE out
            /\ UNCHANGED <<link, warnings>>
    /\ NoDecode
    /\ UNCHANGED <<mainVars, impl, notifying, state, method, acks, settles, heard, calls>>

\* start_notify ends.  Thermostat.py catches its exception and logs a
\* warning; eqiva.py lets it out of connect.
start_notify_ends(ok) ==
    /\ entry = "thermostat"
    /\ ahead # <<>> /\ Head(ahead) = "start_notify"
    /\ ahead' = <<>>
    /\ notifying' = ok
    /\ warnings' = IF ~ok /\ impl = "package" THEN warnings + 1 ELSE warnings
    /\ outcome' = IF ~ok /\ impl = "script" THEN "BleakError" ELSE "ok"
    /\ NoDecode
    /\ UNCHANGED <<mainVars, impl, link, state, method, acks, settles, heard, calls>>

\* The caller, whose last call returned, awaits method m.
Thermostat_call(m) ==
    /\ entry = "thermostat"
    /\ method # "none" /\ ahead = <<>> /\ outcome = "ok"
    /\ calls < MaxCalls
    /\ calls' = calls + 1
    /\ method' = m
    /\ ahead' = MethodSteps(m)
    /\ acks' = 0 /\ settles' = 0 /\ heard' = FALSE
    /\ NoDecode
    /\ UNCHANGED <<mainVars, impl, link, notifying, warnings, state, outcome>>

\* write_gatt_char(..., response=True) ends: acknowledged, or BleakError.
write_ends(ok) ==
    /\ entry = "thermostat"
    /\ ahead # <<>> /\ Head(ahead) = "write"
    /\ IF ok
       THEN Advance /\ acks' = acks + 1
       ELSE Fail("BleakError") /\ UNCHANGED acks
    /\ NoDecode
    /\ UNCHANGED <<mainVars, impl, link, notifying, warnings, method, settles, heard, calls>>

\* read_gatt_char ends: with the value, or BleakError.
read_ends(ok) ==
    /\ entry = "thermostat"
    /\ ahead # <<>> /\ Head(ahead) = "read"
    /\ IF ok THEN Advance ELSE Fail("BleakError")
    /\ NoDecode
    /\ UNCHANGED <<mainVars, impl, link, notifying, warnings, method, acks, settles, heard,
                   calls>>

\* asyncio.sleep(Thermostat.WAIT_NOTIFICATION) ends.
sleep_ends ==
    /\ entry = "thermostat"
    /\ ahead # <<>> /\ Head(ahead) = "sleep"
    /\ Advance
    /\ settles' = settles + 1
    /\ NoDecode
    /\ UNCHANGED <<mainVars, impl, link, notifying, warnings, method, acks, heard, calls>>

\* The device sends frame f and _notificationHandler calls onNotify; an
\* exception of onNotify ends the handler, not the method of the caller.
onNotify(f) ==
    /\ entry = "thermostat"
    /\ link /\ notifying
    /\ state' = Decode(impl, state, f).state
    /\ decodeError' = Decode(impl, state, f).error
    /\ frame' = f
    /\ heard' = (heard \/ ahead # <<>>)
    /\ UNCHANGED <<mainVars, impl, link, notifying, warnings, method, ahead, acks, settles,
                   outcome, calls>>

NextThermostat ==
    \/ Thermostat_connect
    \/ \E out \in {"ok", "down", "BleakError", "TimeoutError"}, characteristic \in BOOLEAN :
          BleakClient_connect(out, characteristic)
    \/ \E ok \in BOOLEAN : start_notify_ends(ok)
    \/ \E m \in Methods : Thermostat_call(m)
    \/ \E ok \in BOOLEAN : write_ends(ok)
    \/ \E ok \in BOOLEAN : read_ends(ok)
    \/ sleep_ends
    \/ \E f \in Frames : onNotify(f)

\* ------------------------------------------- onNotify on frames of any content
\* The 14 bytes of three programs, and of one whose second event is of hour 25.
ProgramBytesA == <<34, 36, 42, 132, 34, 144, 0, 0, 0, 0, 0, 0, 0, 0>>

ProgramBytesB == <<40, 42, 30, 144, 0, 0, 0, 0, 0, 0, 0, 0, 0, 0>>

ProgramBytesHot == <<255, 36, 34, 144, 0, 0, 0, 0, 0, 0, 0, 0, 0, 0>>

ProgramBytesHour25 == <<34, 36, 42, 151, 0, 0, 0, 0, 0, 0, 0, 0, 0, 0>>

\* Frames of any content: status frames whose temperature, minutes and date
\* bytes are any bytes, programs for the days 0, 3, 6 and 7, short frames.
DecodeFrames ==
    {StatusA, StatusB, Slice(StatusA, 0, 10),
     <<2, 1, 8, 0, 4, 80, 0, 0, 0, 0, 24, 3, 42, 34, 7>>,
     <<2, 1, 0, 100, 4, 44, 0, 0, 0, 0, 24, 255, 42, 255, 255>>,
     <<2, 1, 8, 0, 4, 40, 0, 0, 0, 0, 24, 3, 42, 34, 0>>,
     <<2, 1, 8, 0, 4, 40, 5, 24, 20, 13, 24, 3, 42, 34, 7>>,
     <<1, 110, 0, 0, 97, 98, 0>>, <<2, 2, 2>>, <<33, 2, 34>>, <<>>}
    \cup {<<33, d>> \o ProgramBytesA : d \in {0, 3, 6, 7}}
    \cup {<<33, d>> \o ProgramBytesB : d \in {0, 6}}
    \cup {<<33, 1>> \o ProgramBytesHot, <<33, 2>> \o ProgramBytesHour25}

\* A Thermostat of either class that is connected and subscribed.
InitDecode ==
    /\ entry = "thermostat"
    /\ pc = "thermostat"
    /\ argv = [first |-> "args", addresses |-> {}]
    /\ scanStarted = FALSE
    /\ NoController
    /\ filter_ = {} /\ consumed_filter = <<>> /\ found_devices = {} /\ found_bulbs = <<>>
    /\ start_time = 0 /\ duration = 0 /\ now = 0 /\ resolved = <<>> /\ late = FALSE
    /\ advertised = {} /\ ticked = FALSE /\ overrun = 0
    /\ impl \in {"package", "script"}
    /\ link = TRUE /\ notifying = TRUE /\ warnings = 0
    /\ state = NewState /\ method = "none" /\ ahead = <<>>
    /\ acks = 0 /\ settles = 0 /\ heard = FALSE /\ outcome = "none" /\ calls = 0
    /\ frame = NoFrame /\ decodeError = "none"
    /\ NoApi
    /\ NoTemperature
    /\ NoValue
    /\ NoService

NextDecode == \E f \in DecodeFrames : onNotify(f)

\* ------------------------------------- api.py: the registry and the shutdown
\* asyncio.wait_for(safe_disconnect(thermostat), timeout=5.0)
DISCONNECT_TIMEOUT == 5

\* The thread task k runs in: polling_loop's thread for the poll_status
\* tasks, the thread of the request for set_temperature.
ThreadOf(k) == IF k \in {"poll1", "poll2"} THEN "polling" ELSE k

\* Positions between 'with connected_thermostats_lock:' and the end of its body.
AtLock == {"add_wait", "adding", "discard_wait", "discarding"}

\* Task k can run: the process lives, and no other task of its thread
\* stands in a with statement (the body awaits nothing, the thread is kept).
Runs(k) ==
    /\ entry = "api" /\ cleanup_pc # "exited"
    /\ \A j \in Tasks \ {k} : ThreadOf(j) = ThreadOf(k) => task_pc[j] \notin AtLock

\* The main thread can run a coroutine of cleanup_all other than that of t.
MainRuns(t) ==
    /\ entry = "api" /\ cleanup_pc = "gather"
    /\ \A j \in to_disconnect \ {t} : disconnect_pc[j] \notin AtLock

\* A lock that anybody acquires at any time.
LockFreeAlways(holder) == TRUE

\* Lock.acquire returns: nobody holds the lock.
LockFree(holder) == holder = "none"

\* A wait_for without a timeout.
TimedOutNever(e) == FALSE

\* The timeout of wait_for has passed.
TimedOut(e) == e >= DISCONNECT_TIMEOUT

InitApi ==
    /\ entry = "api"
    /\ pc = "api"
    /\ argv = [first |-> "args", addresses |-> {}]
    /\ scanStarted = FALSE
    /\ NoController
    /\ filter_ = {} /\ consumed_filter = <<>> /\ found_devices = {} /\ found_bulbs = <<>>
    /\ start_time = 0 /\ duration = 0 /\ now = 0 /\ resolved = <<>> /\ late = FALSE
    /\ advertised = {} /\ ticked = FALSE /\ overrun = 0
    /\ NoThermostat
    /\ NoApi
    /\ NoTemperature
    /\ NoValue
    /\ NoService

notApiVars == <<cliVars, thermostatVars, temperatureVars, valueVars, serviceVars>>

\* poll_status(mac) or set_temperature(mac, temp) runs: Thermostat(mac),
\* and the thermostat.connect() that safe_connect awaits ends.  Returned:
\* safe_connect goes on to its with statement.  Raised: the finally of the
\* task awaits safe_disconnect.
connect_ends(k, ok) ==
    /\ Runs(k) /\ task_pc[k] = "idle"
    /\ task_pc' = [task_pc EXCEPT ![k] = IF ok THEN "add_wait" ELSE "disconnecting"]
    /\ UNCHANGED <<notApiVars, connected_thermostats, lock_holder, cleanup_pc, to_disconnect,
                   disconnect_pc, elapsed, abandoned>>

\* 'with connected_thermostats_lock:' of safe_connect or safe_disconnect
\* acquires the lock.
task_acquires(k) ==
    /\ Runs(k) /\ task_pc[k] \in {"add_wait", "discard_wait"}
    /\ LockFree(lock_holder)
    /\ lock_holder' = k
    /\ task_pc' = [task_pc EXCEPT ![k] = IF task_pc[k] = "add_wait" THEN "adding"
                                          ELSE "discarding"]
    /\ UNCHANGED <<notApiVars, connected_thermostats, cleanup_pc, to_disconnect,
                   disconnect_pc, elapsed, abandoned>>

\* connected_thermostats.add(thermostat), and the with statement ends.
registry_add(k) ==
    /\ Runs(k) /\ task_pc[k] = "adding"
    /\ connected_thermostats' = connected_thermostats \cup {k}
    /\ lock_holder' = "none"
    /\ task_pc' = [task_pc EXCEPT ![k] = "using"]
    /\ UNCHANGED <<notApiVars, cleanup_pc, to_disconnect, disconnect_pc, elapsed, abandoned>>

\* The command of the task ends, and its finally awaits safe_disconnect.
command_ends(k) ==
    /\ Runs(k) /\ task_pc[k] = "using"
    /\ task_pc' = [task_pc EXCEPT ![k] = "disconnecting"]
    /\ UNCHANGED <<notApiVars, connected_thermostats, lock_holder, cleanup_pc, to_disconnect,
                   disconnect_pc, elapsed, abandoned>>

\* thermostat.disconnect() of the task ends: it returned, or its exception
\* was caught and logged.
disconnect_ends(k) ==
    /\ Runs(k) /\ task_pc[k] = "disconnecting"
    /\ task_pc' = [task_pc EXCEPT ![k] = "discard_wait"]
    /\ UNCHANGED <<notApiVars, connected_thermostats, lock_holder, cleanup_pc, to_disconnect,
                   disconnect_pc, elapsed, abandoned>>

\* A safe_disconnect that leaves the registry as it is.
registry_discardNothing(k) ==
    /\ Runs(k) /\ task_pc[k] = "discarding"
    /\ connected_thermostats' = connected_thermostats
    /\ lock_holder' = "none"
    /\ task_pc' = [task_pc EXCEPT ![k] = "finished"]
    /\ UNCHANGED <<notApiVars, cleanup_pc, to_disconnect, disconnect_pc, elapsed, abandoned>>

\* connected_thermostats.discard(thermostat), and the with statement ends.
registry_discard(k) ==
    /\ Runs(k) /\ task_pc[k] = "discarding"
    /\ connected_thermostats' = connected_thermostats \ {k}
    /\ lock_holder' = "none"
    /\ task_pc' = [task_pc EXCEPT ![k] = "finished"]
    /\ UNCHANGED <<notApiVars, cleanup_pc, to_disconnect, disconnect_pc, elapsed, abandoned>>

\* SIGTERM or SIGINT: the main thread runs handle_exit, which calls
\* cleanup_thermostats.
handle_exit ==
    /\ entry = "api" /\ cleanup_pc = "running"
    /\ cleanup_pc' = "snapshot_wait"
    /\ UNCHANGED <<notApiVars, connected_thermostats, lock_holder, task_pc, to_disconnect,
                   disconnect_pc, elapsed, abandoned>>

\* 'with connected_thermostats_lock:' of cleanup_thermostats acquires the lock.
cleanup_acquires ==
    /\ entry = "api" /\ cleanup_pc = "snapshot_wait"
    /\ LockFree(lock_holder)
    /\ lock_holder' = "main"
    /\ cleanup_pc' = "snapshot"
    /\ UNCHANGED <<notApiVars, connected_thermostats, task_pc, to_disconnect, disconnect_pc,
                   elapsed, abandoned>>

\* thermostats = list(connected_thermostats), and the with statement ends.
\* Empty: cleanup_thermostats returns.  Else cleanup_all makes one
\* wait_for(safe_disconnect(thermostat)) per Thermostat and gathers them.
cleanup_snapshot ==
    /\ entry = "api" /\ cleanup_pc = "snapshot"
    /\ to_disconnect' = connected_thermostats
    /\ lock_holder' = "none"
    /\ cleanup_pc' = IF connected_thermostats = {} THEN "done" ELSE "gather"
    /\ disconnect_pc' = [k \in Tasks |-> IF k \in connected_thermostats THEN "disconnecting"
                                          ELSE "none"]
    /\ elapsed' = 0
    /\ UNCHANGED <<notApiVars, connected_thermostats, task_pc, abandoned>>

\* A second goes by while cleanup_all awaits a disconnect and none of its
\* coroutines stands in a with statement (the loop has nothing to run).
cleanup_tick ==
    /\ entry = "api" /\ cleanup_pc = "gather"
    /\ \E t \in to_disconnect : disconnect_pc[t] = "disconnecting"
    /\ \A t \in to_disconnect : disconnect_pc[t] \notin AtLock
    /\ elapsed < DISCONNECT_TIMEOUT
    /\ elapsed' = elapsed + 1
    /\ UNCHANGED <<notApiVars, connected_thermostats, lock_holder, task_pc, cleanup_pc,
                   to_disconnect, disconnect_pc, abandoned>>

\* thermostat.disconnect() awaited by cleanup_all ends in time: it returned,
\* or its exception was caught and logged.
cleanup_disconnect_ends(t) ==
    /\ MainRuns(t) /\ t \in to_disconnect /\ disconnect_pc[t] = "disconnecting"
    /\ disconnect_pc' = [disconnect_pc EXCEPT ![t] = "discard_wait"]
    /\ UNCHANGED <<notApiVars, connected_thermostats, lock_holder, task_pc, cleanup_pc,
                   to_disconnect, elapsed, abandoned>>

\* The timeout of wait_for passes: safe_disconnect is cancelled, catches the
\* CancelledError at its await and goes on to its with statement.
wait_for_timeout(t) ==
    /\ MainRuns(t) /\ t \in to_disconnect /\ disconnect_pc[t] = "disconnecting"
    /\ TimedOut(elapsed)
    /\ disconnect_pc' = [disconnect_pc EXCEPT ![t] = "discard_wait"]
    /\ abandoned' = abandoned \cup {t}
    /\ UNCHANGED <<notApiVars, connected_thermostats, lock_holder, task_pc, cleanup_pc,
                   to_disconnect, elapsed>>

\* 'with connected_thermostats_lock:' of a safe_disconnect of cleanup_all
\* acquires the lock.
cleanup_task_acquires(t) ==
    /\ MainRuns(t) /\ t \in to_disconnect /\ disconnect_pc[t] = "discard_wait"
    /\ LockFree(lock_holder)
    /\ lock_holder' = "main"
    /\ disconnect_pc' = [disconnect_pc EXCEPT ![t] = "discarding"]
    /\ UNCHANGED <<notApiVars, connected_thermostats, task_pc, cleanup_pc, to_disconnect,
                   elapsed, abandoned>>

\* connected_thermostats.discard(thermostat) of cleanup_all, and the with
\* statement and the wait_for end.
cleanup_discard(t) ==
    /\ MainRuns(t) /\ t \in to_disconnect /\ disconnect_pc[t] = "discarding"
    /\ connected_thermostats' = connected_thermostats \ {t}
    /\ lock_holder' = "none"
    /\ disconnect_pc' = [disconnect_pc EXCEPT ![t] = "done"]
    /\ UNCHANGED <<notApiVars, task_pc, cleanup_pc, to_disconnect, elapsed, abandoned>>

\* gather returns once every wait_for has ended; the loop is closed and
\* cleanup_thermostats returns.
cleanup_returns ==
    /\ entry = "api" /\ cleanup_pc = "gather"
    /\ \A t \in to_disconnect : disconnect_pc[t] = "done"
    /\ cleanup_pc' = "done"
    /\ UNCHANGED <<notApiVars, connected_thermostats, lock_holder, task_pc, to_disconnect,
                   disconnect_pc, elapsed, abandoned>>

\* os._exit(0) of handle_exit.
os_exit ==
    /\ entry = "api" /\ cleanup_pc = "done"
    /\ cleanup_pc' = "exited"
    /\ UNCHANGED <<notApiVars, connected_thermostats, lock_holder, task_pc, to_disconnect,
                   disconnect_pc, elapsed, abandoned>>

\* The steps the threads take by themselves once they can: everything but
\* the signal and the ends of awaited BLE operations.
ApiRuns ==
    \/ \E k \in Tasks : task_acquires(k) \/ registry_add(k) \/ registry_discard(k)
    \/ cleanup_acquires
    \/ cleanup_snapshot
    \/ \E t \in Tasks : wait_for_timeout(t) \/ cleanup_task_acquires(t) \/ cleanup_discard(t)
    \/ cleanup_returns
    \/ os_exit

NextApi ==
    \/ \E k \in Tasks, ok \in BOOLEAN : connect_ends(k, ok)
    \/ \E k \in Tasks : task_acquires(k)
    \/ \E k \in Tasks : registry_add(k)
    \/ \E k \in Tasks : command_ends(k)
    \/ \E k \in Tasks : disconnect_ends(k)
    \/ \E k \in Tasks : registry_discard(k)
    \/ handle_exit
    \/ cleanup_acquires
    \/ cleanup_snapshot
    \/ cleanup_tick
    \/ \E t \in Tasks : cleanup_disconnect_ends(t)
    \/ \E t \in Tasks : wait_for_timeout(t)
    \/ \E t \in Tasks : cleanup_task_acquires(t)
    \/ \E t \in Tasks : cleanup_discard(t)
    \/ cleanup_returns
    \/ os_exit

\* ------------------------------------------------------------- Temperature
\* A Temperature.__init__ that takes every value of its range.
RejectedOutOfRange(v) == v < -45 \/ v > 300

\* Temperature.__init__ raises: valueC < -4.5 or valueC > 30.0 or
\* valueC * 10 % 5 != 0 (v is in tenths: v is valueC * 10).
Rejected(v) == v < -45 \/ v > 300 \/ v % 5 # 0

InitTemperature ==
    /\ entry = "temperature"
    /\ pc = "temperature"
    /\ argv = [first |-> "args", addresses |-> {}]
    /\ scanStarted = FALSE
    /\ NoController
    /\ filter_ = {} /\ consumed_filter = <<>> /\ found_devices = {} /\ found_bulbs = <<>>
    /\ start_time = 0 /\ duration = 0 /\ now = 0 /\ resolved = <<>> /\ late = FALSE
    /\ advertised = {} /\ ticked = FALSE /\ overrun = 0
    /\ NoThermostat
    /\ NoApi
    /\ valueC \in (-MaxTenths)..MaxTenths
    /\ made = "none" /\ byte = None /\ back = None
    /\ NoValue
    /\ NoService

notTemperatureVars == <<cliVars, thermostatVars, apiVars, valueVars, serviceVars>>

\* Temperature(valueC)
Temperature_init ==
    /\ entry = "temperature" /\ made = "none"
    /\ made' = IF Rejected(valueC) THEN "EqivaException" ELSE "ok"
    /\ UNCHANGED <<notTemperatureVars, valueC, byte, back>>

\* t.toByte()
Temperature_toByte ==
    /\ entry = "temperature" /\ made = "ok" /\ byte = None
    /\ byte' = toByte(valueC)
    /\ UNCHANGED <<notTemperatureVars, valueC, made, back>>

\* Temperature.fromByte(byte).valueC
Temperature_fromByte ==
    /\ entry = "temperature" /\ byte # None /\ back = None
    /\ back' = fromByte(byte)
    /\ UNCHANGED <<notTemperatureVars, valueC, made, byte>>

NextTemperature ==
    \/ Temperature_init
    \/ Temperature_toByte
    \/ Temperature_fromByte

\* ------------------------------------------------ value objects and frames
\* bytearray(l): ValueError unless every number is in range(0, 256).
ByteArray(l) ==
    IF \A i \in DOMAIN l : l[i] \in 0..255
    THEN [bytes |-> l, error |-> "none"]
    ELSE [bytes |-> NoFrame, error |-> "ValueError"]

\* The encoding raised e.
EncodeRaised(e) == [bytes |-> NoFrame, error |-> e]

\* The decoding raised e.
DecodeRaised(e) == [value |-> NoneObject, error |-> e]

\* The constructor returned the object of attributes v, or raised e.
Made(v) == [made |-> "ok", value |-> v]

NotMade(e) == [made |-> e, value |-> NoneObject]

\* Event.__init__ raises (e is <<temperature, hour, minute>>).
Event_rejects(e) == e[2] < 0 \/ e[2] > 24 \/ e[3] < 0 \/ e[3] > 50 \/ e[3] % 10 # 0

\* Event.toBytes: bytearray([temperature.toByte(), hour * 6 + minute // 10]);
\* without a Temperature, None has no toByte.
Event_toBytes(e) ==
    IF e[1] = None THEN EncodeRaised("AttributeError")
    ELSE ByteArray(<<toByte(e[1]), e[2] * 6 + e[3] \div 10>>)

\* Event.fromBytes with the exceptions of bytes[1] and of Event.__init__.
Event_decode(b) ==
    IF Len(b) < 2 THEN DecodeRaised("IndexError")
    ELSE IF Event_rejects(Event_fromBytes(b)) THEN DecodeRaised("EqivaException")
    ELSE [value |-> Event_fromBytes(b), error |-> "none"]

\* Program.__init__ raises: no event, or more than 7.
Program_rejects(events) == events = <<>> \/ Len(events) > 7

\* Program.toBytes: zeros up to 14 bytes.
Program_pad(l) == IF Len(l) < 14 THEN l \o [i \in 1..(14 - Len(l)) |-> 0] ELSE l

RECURSIVE Program_extend(_)
\* Program.toBytes: the loop bytes.extend(e.toBytes()); the first event
\* whose toBytes raises ends it.
Program_extend(events) ==
    IF events = <<>> THEN [bytes |-> <<>>, error |-> "none"]
    ELSE LET first == Event_toBytes(Head(events))
             rest == Program_extend(Tail(events))
         IN  IF first.error # "none" THEN first
             ELSE IF rest.error # "none" THEN rest
             ELSE [bytes |-> first.bytes \o rest.bytes, error |-> "none"]

Program_toBytes(events) ==
    LET l == Program_extend(events)
    IN  IF l.error # "none" THEN l ELSE ByteArray(Program_pad(l.bytes))

\* Program.fromBytes with the exceptions of its 7 Event.fromBytes.
Program_decode(b) ==
    LET f == <<33, 0>> \o b
        bad == {i \in 1..7 : EventError(f, i) # "none"}
    IN  IF bad # {}
        THEN DecodeRaised(EventError(f, CHOOSE i \in bad : \A j \in bad : i <= j))
        ELSE [value |-> Program_fromBytes(b), error |-> "none"]

\* Program.to_dict and __str__ present the events whose hour is not 0.
Presented(events) == SelectSeq(events, LAMBDA e : e[2] # 0)

\* Temperatures of the samples, in tenths; None: no Temperature object.
SampleTemperatures == {None, -45, 0, 205, 300}

\* Vacation.__init__: until - timedelta(minutes=until.minute % 30), or None;
\* u is <<year, month, day, hour, minute, second>>, <<>> for None.
Vacation_init(u) ==
    IF u = <<>> THEN <<>> ELSE <<u[1], u[2], u[3], u[4], u[5] - (u[5] % 30), u[6]>>

\* Vacation.toBytes: bytearray([day, year - 2000, hour * 2 + minute // 30,
\* month]); None has no day.
Vacation_toBytes(u) ==
    IF u = <<>> THEN EncodeRaised("AttributeError")
    ELSE ByteArray(<<u[3], u[1] - 2000, u[4] * 2 + u[5] \div 30, u[2]>>)

\* Vacation.fromBytes with the exceptions of bytes[k] and of datetime().
Vacation_decode(b) ==
    IF b = <<>> \/ (b[1] > 0 /\ Len(b) < 4) THEN DecodeRaised("IndexError")
    ELSE IF Vacation_raises(b) THEN DecodeRaised("ValueError")
    ELSE [value |-> Vacation_fromBytes(b), error |-> "none"]

\* OpenWindowConfig.__init__ raises (w is <<temperature, minutes>>).
OpenWindowConfig_rejects(w) == OpenWindowConfigRejects(w[2])

\* OpenWindowConfig.toBytes: bytearray([temperature.toByte(), minutes // 5]).
OpenWindowConfig_toBytes(w) ==
    IF w[1] = None THEN EncodeRaised("AttributeError")
    ELSE ByteArray(<<toByte(w[1]), w[2] \div 5>>)

\* OpenWindowConfig.fromBytes with the exception of bytes[k].
OpenWindowConfig_decode(b) ==
    IF Len(b) < 2 THEN DecodeRaised("IndexError")
    ELSE [value |-> OpenWindowConfig_fromBytes(b), error |-> "none"]

\* Mode.MODES[1:]
MODES_1 == <<"MANUAL", "VACATION", "BOOST", "DAYLIGHT_SUMMER_TIME", "OPEN_WINDOW", "LOCKED",
             "UNKNOWN", "BATTERY_LOW">>

\* self.mode & 2**i == 2**i
BitSet(m, i) == (m \div (2 ^ i)) % 2 = 1

\* A to_dict that tests 2**(i + 1) for the name i of MODES[1:].
Mode_to_dictNextBit(m) ==
    LET set == SelectSeq(<<1, 2, 3, 4, 5, 6, 7, 8>>, LAMBDA k : BitSet(m, k))
    IN  (IF BitSet(m, 0) THEN <<>> ELSE <<"AUTO">>) \o [k \in 1..Len(set) |-> MODES_1[set[k]]]

\* A to_dict that names no MANUAL.
Mode_to_dictWithoutManual(m) ==
    LET set == SelectSeq(<<2, 3, 4, 5, 6, 7, 8>>, LAMBDA k : BitSet(m, k - 1))
    IN  (IF BitSet(m, 0) THEN <<>> ELSE <<"AUTO">>) \o [k \in 1..Len(set) |-> MODES_1[set[k]]]

\* Mode.to_dict: "AUTO" unless the MANUAL bit is set, then the names of
\* MODES[1:] whose bit 2**i is set.
Mode_to_dict(m) ==
    LET set == SelectSeq(<<1, 2, 3, 4, 5, 6, 7, 8>>, LAMBDA k : BitSet(m, k - 1))
    IN  (IF BitSet(m, 0) THEN <<>> ELSE <<"AUTO">>) \o [k \in 1..Len(set) |-> MODES_1[set[k]]]

\* Program.DAY_*: the days of the device and the groups of days.
DAY_SATURDAY == 0

DAY_SUNDAY == 1

DAY_MONDAY == 2

DAY_FRIDAY == 6

DAY_WEEKEND == 7

DAY_WORKDAY == 8

DAY_EVERYDAY == 9

DAY_TODAY == 10

DAY_TOMORROW == 11

\* range(a, b + 1)
range(a, b) == [k \in 1..(b - a + 1) |-> a + k - 1]

\* A requestProgram that takes weekday() for the day of the device.
requestProgram_daysOfWeekday(day, weekday) ==
    CASE day <= DAY_FRIDAY -> <<day>>
      [] day = DAY_WEEKEND -> range(DAY_SATURDAY, DAY_SUNDAY)
      [] day = DAY_WORKDAY -> range(DAY_MONDAY, DAY_FRIDAY)
      [] day = DAY_EVERYDAY -> range(DAY_SATURDAY, DAY_FRIDAY)
      [] day = DAY_TODAY -> <<weekday>>
      [] day = DAY_TOMORROW -> <<(weekday + 1) % 7>>
      [] OTHER -> <<>>

\* The days requestProgram(day) requests; weekday is datetime.now().weekday().
requestProgram_days(day, weekday) ==
    CASE day <= DAY_FRIDAY -> <<day>>
      [] day = DAY_WEEKEND -> range(DAY_SATURDAY, DAY_SUNDAY)
      [] day = DAY_WORKDAY -> range(DAY_MONDAY, DAY_FRIDAY)
      [] day = DAY_EVERYDAY -> range(DAY_SATURDAY, DAY_FRIDAY)
      [] day = DAY_TODAY -> <<(weekday + 2) % 7>>
      [] day = DAY_TOMORROW -> <<(weekday + 3) % 7>>
      [] OTHER -> <<>>

\* requestProgram(day): Program.DAYS[day] of the log line raises IndexError
\* for a day above 11; then the awaits in order, one write of
\* bytearray([0x20, d]) for each day requested (ValueError for a negative
\* d) and one sleep of WAIT_NOTIFICATION.
requestProgram(day, weekday) ==
    LET days == requestProgram_days(day, weekday)
    IN  IF day > DAY_TOMORROW \/ day < -12 THEN EncodeRaised("IndexError")
        ELSE IF \E i \in DOMAIN days : ByteArray(<<32, days[i]>>).error # "none"
        THEN EncodeRaised("ValueError")
        ELSE [bytes |-> [i \in DOMAIN days |-> [await |-> "write", frame |-> <<32, days[i]>>]]
                           \o <<[await |-> "sleep", frame |-> <<>>]>>,
              error |-> "none"]

\* The days and the weekdays requestProgram is called with.
RequestInputs == {<<day, weekday>> : day \in -1..12, weekday \in 0..6}

\* The methods of Thermostat that encode value objects into a frame.
Commands_encoding == {"setTemperature", "setOffsetTemperature", "setComfortEcoTemperature",
                      "setVacation", "setOpenWindow"}

\* The frame the method t builds of its arguments v: the command bytes, the
\* bytes of the arguments, and bytearray(bytes).
CommandFrame(t, v) ==
    CASE t = "setTemperature" -> ByteArray(<<65, toByte(v[1])>>)
      [] t = "setOffsetTemperature" -> ByteArray(<<19, toByte(v[1]) + 7>>)
      [] t = "setComfortEcoTemperature" -> ByteArray(<<17, toByte(v[1]), toByte(v[2])>>)
      [] t = "setVacation" ->
            LET b == Vacation_toBytes(Tail(v))
            IN  IF b.error # "none" THEN b ELSE ByteArray(<<64, toByte(v[1]) + 128>> \o b.bytes)
      [] t = "setOpenWindow" ->
            LET b == OpenWindowConfig_toBytes(v)
            IN  IF b.error # "none" THEN b ELSE ByteArray(<<20>> \o b.bytes)

\* The Temperatures that Temperature() accepts, in tenths.
AcceptedTemperatures == {v \in -50..305 : ~Rejected(v)}

\* datetimes given to Vacation(), and None.
VacationInputs ==
    {<<y, md[1], md[2], h, mi, sec>> :
        y \in {1999, 2024, 2255, 2256}, md \in {<<1, 1>>, <<5, 17>>, <<12, 31>>},
        h \in {0, 10, 23}, mi \in {0, 29, 30, 47, 59}, sec \in {0, 33}}
    \cup {<<>>}

\* Bytes given to Vacation.fromBytes.
VacationBytes ==
    {<<d, y, hh, m>> : d \in {0, 1, 29, 31, 32}, y \in {0, 23, 24, 255},
                       hh \in {0, 21, 47, 48, 255}, m \in {0, 2, 5, 12, 13}}
    \cup {<<>>, <<0>>, <<5, 24>>}

\* Arguments given to OpenWindowConfig().
OpenWindowInputs ==
    {<<t, m>> : t \in SampleTemperatures, m \in {-5, 0, 3, 5, 995, 1000}}

\* Arguments of the encoding methods: Temperatures that were accepted, the
\* datetime of a Vacation, the arguments of an OpenWindowConfig.
CommandInputs(t) ==
    CASE t \in {"setTemperature", "setOffsetTemperature"} ->
            {<<v>> : v \in AcceptedTemperatures}
      [] t = "setComfortEcoTemperature" ->
            {<<c, e>> : c \in {-45, 0, 45, 300}, e \in {-45, 0, 45, 300}}
      [] t = "setVacation" ->
            {<<v>> \o u : v \in {-45, 45, 300},
                          u \in {<<2024, 5, 17, 10, 30, 0>>, <<2255, 12, 31, 23, 47, 0>>,
                                  <<2256, 1, 1, 0, 0, 0>>, <<1999, 12, 31, 23, 30, 0>>}}
      [] t = "setOpenWindow" ->
            {<<v, m>> : v \in {-45, 0, 120, 300}, m \in {0, 5, 995, 1000}}

\* Arguments given to Event().
EventInputs ==
    {<<t, h, m>> : t \in SampleTemperatures, h \in {-1, 0, 6, 24, 25},
                   m \in {-10, 0, 5, 30, 50, 60}}

\* Bytes given to Event.fromBytes.
EventBytes == {<<41, b>> : b \in 0..255} \cup {<<41>>}

\* Events of the Programs: 21.0 until 06:00, 17.0 until 00:30, -4.5 until 24:00.
ProgramEvents == {<<210, 6, 0>>, <<170, 0, 30>>, <<-45, 24, 0>>}

\* Event lists given to Program(): all of up to MaxEvents events, and some of
\* 7 and 8.
ProgramInputs ==
    UNION {[1..n -> ProgramEvents] : n \in 0..MaxEvents}
    \cup {[i \in 1..7 |-> <<210, 6, 0>>],
          [i \in 1..7 |-> IF i = 7 THEN <<170, 24, 0>> ELSE <<210, 2 * i, 10 * (i - 1)>>],
          [i \in 1..7 |-> IF i = 4 THEN <<-45, 24, 0>> ELSE <<170, 0, 30>>],
          [i \in 1..8 |-> <<210, 6, 0>>]}

\* The constructor of class t on the arguments a.
Construct(t, a) ==
    CASE t = "Event" -> IF Event_rejects(a) THEN NotMade("EqivaException") ELSE Made(a)
      [] t = "Program" -> IF Program_rejects(a) THEN NotMade("EqivaException") ELSE Made(a)
      [] t = "Vacation" -> Made(Vacation_init(a))
      [] t = "OpenWindowConfig" ->
            IF OpenWindowConfig_rejects(a) THEN NotMade("EqivaException") ELSE Made(a)
      [] t = "setVacation" -> Made(<<a[1]>> \o Vacation_init(Tail(a)))
      [] t = "setOpenWindow" ->
            IF OpenWindowConfig_rejects(a) THEN NotMade("EqivaException") ELSE Made(a)
      [] OTHER -> Made(a)

\* toBytes of the object of class t with the attributes v.
Encode(t, v) ==
    CASE t = "Event" -> Event_toBytes(v)
      [] t = "Program" -> Program_toBytes(v)
      [] t = "Vacation" -> Vacation_toBytes(v)
      [] t = "OpenWindowConfig" -> OpenWindowConfig_toBytes(v)
      [] t = "requestProgram" -> requestProgram(v[1], v[2])
      [] OTHER -> CommandFrame(t, v)

\* onNotify of both classes on a STATUS frame of 15 bytes whose offset byte
\* is the byte of the Offset command b: the offsetTemperature each stores.
OffsetDecoded(b) ==
    LET f == [StatusA EXCEPT ![15] = b[2]]
        p == StatusDecode("package", NewState, f)
        e == StatusDecode("script", NewState, f)
    IN  [value |-> <<p.state.offsetTemperature, e.state.offsetTemperature>>,
         error |-> IF p.error # "none" THEN p.error ELSE e.error]

\* fromBytes of class t on the bytes b.
DecodeBytes(t, b) ==
    CASE t = "Event" -> Event_decode(b)
      [] t = "Program" -> Program_decode(b)
      [] t = "Vacation" -> Vacation_decode(b)
      [] t = "OpenWindowConfig" -> OpenWindowConfig_decode(b)
      [] t = "Mode" -> [value |-> Mode_to_dict(b[1]), error |-> "none"]
      [] t = "setOffsetTemperature" -> OffsetDecoded(b)

\* The classes that have a fromBytes.
Decodable == {"Event", "Program", "Vacation", "OpenWindowConfig", "Mode", "setOffsetTemperature"}

\* No other program runs: only the component e is exercised.
Component(e) ==
    /\ entry = e /\ pc = e
    /\ argv = [first |-> "args", addresses |-> {}]
    /\ scanStarted = FALSE
    /\ NoController
    /\ filter_ = {} /\ consumed_filter = <<>> /\ found_devices = {} /\ found_bulbs = <<>>
    /\ start_time = 0 /\ duration = 0 /\ now = 0 /\ resolved = <<>> /\ late = FALSE
    /\ advertised = {} /\ ticked = FALSE /\ overrun = 0

\* Arguments a are given to the constructor of class t.
GivenArguments(t, a) ==
    vt = t /\ vin = a /\ vobj = Unmade /\ venc = Unencoded /\ vdec = Undecoded

\* Bytes b are given to fromBytes of class t.
GivenBytes(t, b) ==
    /\ vt = t /\ vin = NoneObject /\ vobj = Unmade
    /\ venc = [bytes |-> b, error |-> "given"] /\ vdec = Undecoded

InitValue ==
    /\ Component("value")
    /\ NoThermostat
    /\ NoApi
    /\ NoTemperature
    /\ NoService
    /\ \/ \E a \in EventInputs : GivenArguments("Event", a)
       \/ \E b \in EventBytes : GivenBytes("Event", b)
       \/ \E a \in ProgramInputs : GivenArguments("Program", a)
       \/ \E a \in VacationInputs : GivenArguments("Vacation", a)
       \/ \E b \in VacationBytes : GivenBytes("Vacation", b)
       \/ \E a \in OpenWindowInputs : GivenArguments("OpenWindowConfig", a)
       \/ \E m \in 0..255 : GivenBytes("Mode", <<m>>)
       \/ \E t \in Commands_encoding : \E a \in CommandInputs(t) : GivenArguments(t, a)
       \/ \E a \in RequestInputs : GivenArguments("requestProgram", a)

notValueVars == <<cliVars, thermostatVars, apiVars, temperatureVars, serviceVars>>

\* The constructor is called.
Value_init ==
    /\ entry = "value" /\ venc.error = "pending" /\ vobj.made = "none"
    /\ vobj' = Construct(vt, vin)
    /\ UNCHANGED <<notValueVars, vt, vin, venc, vdec>>

\* toBytes of the object, or the encoding of the command, is called.
Value_toBytes ==
    /\ entry = "value" /\ vobj.made = "ok" /\ venc.error = "pending"
    /\ venc' = Encode(vt, vobj.value)
    /\ UNCHANGED <<notValueVars, vt, vin, vobj, vdec>>

\* fromBytes is called on the bytes encoded or given.
Value_fromBytes ==
    /\ entry = "value" /\ vt \in Decodable
    /\ venc.error \in {"none", "given"} /\ vdec.error = "pending"
    /\ vdec' = DecodeBytes(vt, venc.bytes)
    /\ UNCHANGED <<notValueVars, vt, vin, vobj, venc>>

NextValue ==
    \/ Value_init
    \/ Value_toBytes
    \/ Value_fromBytes

\* ------------------------------------------ api.py: poll_status and the store
\* The thermostats of the store.
Macs == {"mac1", "mac2"}

\* create_default_thermostat_status(), in tenths.
DefaultStatus ==
    [targetHeatingCoolingState |-> 0, targetTemperature |-> 200,
     currentHeatingCoolingState |-> 0, currentTemperature |-> 200,
     currentRelativeHumidity |-> 500]

\* calculate_heating_cooling_state(mode, valve); no mode is named OFF.
calculate_heating_cooling_state(mode, valve) ==
    IF valve > 0 /\ InSeq("MANUAL", mode) THEN 1
    ELSE IF valve = 0 /\ InSeq("MANUAL", mode) THEN 2
    ELSE IF InSeq("AUTO", mode) THEN 3
    ELSE 1

\* new_status of poll_status, of the mode byte, the valve and the
\* temperature of the thermostat and of the latest reading of the DHT
\* sensor (None before the first).
NewStatus(modeByte, valve, temp, latest) ==
    LET mode == Mode_to_dict(modeByte)
    IN  [targetHeatingCoolingState |->
             IF InSeq("AUTO", mode) THEN 3 ELSE IF InSeq("MANUAL", mode) THEN 1 ELSE 0,
         targetTemperature |-> temp,
         currentHeatingCoolingState |-> calculate_heating_cooling_state(mode, valve),
         currentTemperature |-> IF latest.temperature # None THEN latest.temperature ELSE temp,
         currentRelativeHumidity |-> IF latest.humidity # None THEN latest.humidity ELSE 500]

\* status_store[mac]["last_updated"] = localtime(): the dict with one more key.
WithLastUpdated(status, time) == status @@ [last_updated |-> time]

\* What the thermostat and the DHT sensor read at the time of a poll.
ModeBytes == {0, 1}

Valves == {0, 50}

TargetTemperatures == {170, 210}

LatestReadings == {[temperature |-> None, humidity |-> None],
                   [temperature |-> 195, humidity |-> 450]}

\* The store as load_status_store or the routes left it: default statuses.
InitPoll ==
    /\ Component("poll")
    /\ NoThermostat
    /\ NoApi
    /\ NoTemperature
    /\ NoValue
    /\ \E S \in SUBSET Macs \ {{}} : status_store = [m \in S |-> DefaultStatus]
    /\ saved = 0 /\ polled = Unpolled
    /\ server = "none"
    /\ NoThreadsYet

notStoreVars == <<cliVars, thermostatVars, apiVars, temperatureVars, valueVars,
                  server, DHT_PIN, started, threads, handler_pc, handler_pin>>

\* poll_status(mac): connect and requestStatus end with out ("AttributeError":
\* no status was notified, thermostat.mode is None); new_status is built and
\* the store is written and saved if it differs.
poll_status(mac, out, modeByte, valve, temp, latest) ==
    /\ entry = "poll" /\ mac \in DOMAIN status_store /\ saved < MaxSaves
    /\ IF out = "ok"
       THEN LET new_status == NewStatus(modeByte, valve, temp, latest)
            IN  /\ polled' = [mac |-> mac, new_status |-> new_status, outcome |-> out]
                /\ IF status_store[mac] # new_status
                   THEN /\ status_store' = [status_store EXCEPT
                                               ![mac] = WithLastUpdated(new_status, saved + 1)]
                        /\ saved' = saved + 1
                   ELSE UNCHANGED <<status_store, saved>>
       ELSE /\ polled' = [mac |-> mac, new_status |-> <<>>, outcome |-> out]
            /\ UNCHANGED <<status_store, saved>>
    /\ UNCHANGED notStoreVars

NextPoll ==
    \E mac \in Macs, out \in {"ok", "BleakError", "EqivaException", "AttributeError"},
       modeByte \in ModeBytes, valve \in Valves, temp \in TargetTemperatures,
       latest \in LatestReadings :
        poll_status(mac, out, modeByte, valve, temp, latest)

\* ------------------- api.py and DHTService: the threads that are started once
\* The pins a request names (None: the request names no pin).
Pins == {None, 4, 17}

\* api.py runs start_polling in main before it serves requests; the
\* DHTService is made with no pin and no thread, and only requests call it.
InitThreads ==
    /\ Component("threads")
    /\ NoThermostat
    /\ NoApi
    /\ NoTemperature
    /\ NoValue
    /\ status_store = <<>> /\ saved = 0 /\ polled = Unpolled
    /\ server \in {"api", "dht_service"}
    /\ DHT_PIN = None
    /\ started = [polling |-> FALSE, dht |-> FALSE]
    /\ threads = [polling |-> 0, dht |-> 0]
    /\ handler_pc = [h \in Handlers |-> IF h = "main" /\ server = "dht_service"
                                        THEN "done" ELSE "idle"]
    /\ handler_pin = [h \in Handlers |-> None]

notThreadVars == <<cliVars, thermostatVars, apiVars, temperatureVars, valueVars,
                   status_store, polled, server>>

\* The handler h goes to position p.
Goto(h, p) == handler_pc' = [handler_pc EXCEPT ![h] = p]

\* start_polling() in main, one step: load_status_store sets DHT_PIN to the
\* pin of the YAML file; the polling thread is started if the attribute
\* _started is missing, then the attribute is set; ensure_dht_thread_running
\* is called if a pin is set.
start_polling(pin) ==
    /\ entry = "threads" /\ server = "api"
    /\ CASE handler_pc["main"] = "idle" ->
              /\ DHT_PIN' = pin
              /\ Goto("main", IF started.polling THEN "pin_set" ELSE "polling_start")
              /\ UNCHANGED <<started, threads>>
         [] handler_pc["main"] = "polling_start" ->
              /\ threads' = [threads EXCEPT !.polling = @ + 1]
              /\ Goto("main", "polling_started")
              /\ UNCHANGED <<started, DHT_PIN>>
         [] handler_pc["main"] = "polling_started" ->
              /\ started' = [started EXCEPT !.polling = TRUE]
              /\ Goto("main", "pin_set")
              /\ UNCHANGED <<threads, DHT_PIN>>
         [] handler_pc["main"] = "pin_set" ->
              /\ Goto("main", IF DHT_PIN # None THEN "ensure" ELSE "done")
              /\ UNCHANGED <<started, threads, DHT_PIN>>
         [] OTHER -> FALSE
    /\ UNCHANGED <<notThreadVars, saved, handler_pin>>

\* A request that names pin arrives at the handler thread h, once main
\* serves (app.run), and the route calls update_dht_pin or set_pin.
request(h, pin) ==
    /\ entry = "threads" /\ h # "main"
    /\ handler_pc["main"] = "done" /\ handler_pc[h] \in {"idle", "done"}
    /\ saved + Cardinality({g \in Handlers : handler_pc[g] \in {"pin_given", "pin_differs"}})
          < MaxSaves
    /\ handler_pin' = [handler_pin EXCEPT ![h] = pin]
    /\ Goto(h, "pin_given")
    /\ UNCHANGED <<notThreadVars, saved, DHT_PIN, started, threads>>

\* update_dht_pin(pin) of api.py and DHTService.set_pin(pin), one step: the
\* test of the pin, then the assignment (and save_status_store in api.py).
update_dht_pin(h) ==
    /\ entry = "threads"
    /\ CASE handler_pc[h] = "pin_given" ->
              /\ Goto(h, IF handler_pin[h] # None /\ DHT_PIN # handler_pin[h]
                          THEN "pin_differs" ELSE "done")
              /\ UNCHANGED <<DHT_PIN, saved>>
         [] handler_pc[h] = "pin_differs" ->
              /\ DHT_PIN' = handler_pin[h]
              /\ saved' = IF server = "api" THEN saved + 1 ELSE saved
              /\ Goto(h, "ensure")
         [] OTHER -> FALSE
    /\ UNCHANGED <<notThreadVars, started, threads, handler_pin>>

\* ensure_dht_thread_running() and DHTService._ensure_thread_running(), one
\* step: the test of the pin and of the flag, Thread(...).start(), then the
\* flag is set.
ensure_dht_thread_running(h) ==
    /\ entry = "threads"
    /\ CASE handler_pc[h] = "ensure" ->
              /\ Goto(h, IF DHT_PIN # None /\ ~started.dht THEN "dht_start" ELSE "done")
              /\ UNCHANGED <<started, threads>>
         [] handler_pc[h] = "dht_start" ->
              /\ threads' = [threads EXCEPT !.dht = @ + 1]
              /\ Goto(h, "dht_started")
              /\ UNCHANGED started
         [] handler_pc[h] = "dht_started" ->
              /\ started' = [started EXCEPT !.dht = TRUE]
              /\ Goto(h, "done")
              /\ UNCHANGED threads
         [] OTHER -> FALSE
    /\ UNCHANGED <<notThreadVars, saved, DHT_PIN, handler_pin>>

NextThreads ==
    \/ \E pin \in Pins : start_polling(pin)
    \/ \E h \in Handlers, pin \in Pins : request(h, pin)
    \/ \E h \in Handlers : update_dht_pin(h)
    \/ \E h \in Handlers : ensure_dht_thread_running(h)

Next ==
    \/ \E c \in CommandLines : CLI___init__(c)
    \/ process_begin
    \/ \E d \in Devices, fresh \in BOOLEAN : callback(d, fresh)
    \/ Tick
    \/ scan_return
    \/ connect_afterScan
    \/ \E i \in Sessions, out \in {"ok", "down", "BleakError", "TimeoutError"},
          notify \in BOOLEAN : connect(i, out, notify)
    \/ \E i \in Sessions : start_notify(i)
    \/ \E i \in Sessions, ok \in BOOLEAN : write_gatt_char(i, ok)
    \/ \E i \in Sessions, ok \in BOOLEAN : read_gatt_char(i, ok)
    \/ \E i \in Sessions : sleep(i)
    \/ \E i \in Sessions, out \in {"ok", "BleakError"} : disconnect(i, out)
    \/ \E i \in Sessions : LinkDrop(i)
    \/ gather_resume
    \/ \E c \in Commands : process_command(c)
    \/ process_end
    \/ process_finally
    \/ do_stuff_begin
    \/ do_stuff_body
    \/ do_stuff_end

Spec == Init /\ [][Next]_vars

\* A call of ThermostatController.scan on its own.
SpecScan == InitScan /\ [][NextScan]_vars

\* One Thermostat object, its caller and the frames of its device.
SpecThermostat == InitThermostat /\ [][NextThermostat]_vars

\* The tasks and the shutdown of api.py.  The threads go on when they can,
\* and time goes by; a BLE operation may never end.
SpecApi ==
    InitApi /\ [][NextApi]_vars /\ WF_vars(ApiRuns) /\ WF_vars(cleanup_tick)

\* One Temperature made of a value, encoded and decoded.
SpecTemperature == InitTemperature /\ [][NextTemperature]_vars

\* One value object made, encoded and decoded, or one byte string decoded.
SpecValue == InitValue /\ [][NextValue]_vars

\* One subscribed Thermostat that is sent frames of any content.
SpecDecode == InitDecode /\ [][NextDecode]_vars

\* The polling of api.py on the thermostats of its store.
SpecPoll == InitPoll /\ [][NextPoll]_vars

\* main and two request handler threads of api.py or of the DHTService.
SpecThreads == InitThreads /\ [][NextThreads]_vars

\* ---------------------------------------------------------------------- claims
CLI == entry = "cli"

\* C1: a fan-out command dispatched to two or more connected sessions returns
\* to its caller without an exception, also when the send of one session fails.
C1_NoExceptionEscapes ==
    CLI /\ lastCall.op = "fanout" /\ Cardinality(callConnected) >= 2 => lastCall.exc = "none"

\* C2: when the scan returned fewer devices than addresses were given,
\* connect() fails with EqivaException, the session list stays empty and no
\* Thermostat.connect is started.
C2_IncompleteScanOpensNothing ==
    /\ CLI /\ scanStarted /\ pc # "scan"
           /\ Len(devices) < Cardinality(argv.addresses)
       => /\ thermostats = <<>>
          /\ pc # "scanned" => resolutionError
    /\ resolutionError
       => /\ thermostats = <<>>
          /\ pc = "finally" => exc = "EqivaException" /\ lastCall.op = "connect"

\* C2: connect() has failed after a scan that found some of the addresses.
C2_Witness == resolutionError /\ devices # <<>> /\ pc = "exit"

\* C3: when the caller has returned, a disconnect was attempted for every
\* session that reached Connected and is connected still.
C3_DisconnectOnEveryExit ==
    pc = "exit" =>
        \A i \in Sessions : everConnected[i] /\ is_connected[i] => discAttempted[i]

\* C4: a fleet operation of the controller issues reads and writes only to
\* sessions that were connected when it was called.
C4_OnlyConnectedAtCallTime == CLI => ioTargets \subseteq callConnected

\* C5: when connect() or a fan-out command has handed control back to
\* process(), none of the tasks it started is still running.
C5_ReturnsAfterAllTasks ==
    CLI /\ pc \in {"loop", "finally"} => \A i \in Sessions : tstate[i] # "run"

\* C6: ThermostatController.disconnect never raises an exception to its caller.
C6_DisconnectNeverRaises == CLI /\ lastCall.op = "disconnect" => lastCall.exc = "none"

\* C7: on the wire of one session the operations appear in order, and
\* between a write of one operation and a write of a later one lie the
\* acknowledgement and then the settle interval of the earlier.
C7_WritesInOrder ==
    \A i \in Sessions :
        LET w == wire[i] IN
        /\ \A p \in 1..(Len(w) - 1) : w[p][2] <= w[p + 1][2]
        /\ \A q \in DOMAIN w :
              w[q][1] = "w" =>
                \A p \in 1..(q - 1) :
                    w[p][1] = "w" /\ w[p][2] < w[q][2] =>
                        \E b \in (p + 1)..(q - 1) :
                            /\ w[b] = <<"s", w[p][2]>>
                            /\ \E a \in (p + 1)..(b - 1) : w[a] = <<"a", w[p][2]>>

\* C7: a session has the writes of two operations on its wire.
C7_Witness ==
    \E i \in Sessions : \E p, q \in DOMAIN wire[i] :
        wire[i][p][1] = "w" /\ wire[i][q][1] = "w" /\ wire[i][p][2] < wire[i][q][2]

\* C8: with more than 8 addresses the program ends before any scan and opens
\* no session; no command line of at most 8 addresses is rejected by the cap.
C8_CapBeforeScan ==
    CLI =>
        /\ Cardinality(argv.addresses) > 8
           => ~scanStarted /\ thermostats = <<>> /\ pc \in {"init", "exit"}
        /\ cliError = "EqivaException:too many" => Cardinality(argv.addresses) > 8

\* C8: a command line of 9 addresses was rejected by the cap.
C8_Witness ==
    pc = "exit" /\ cliError = "EqivaException:too many" /\ Cardinality(argv.addresses) = 9

\* C9: in an invocation in which command parameters were rejected with
\* EqivaException, no scan was started and no session exists.
C9_ValidationBeforeIO == validationError => ~scanStarted /\ thermostats = <<>>

\* C9: an invocation with addresses within the cap ended with rejected
\* command parameters.
C9_Witness ==
    /\ pc = "exit" /\ validationError /\ cliError = "EqivaException:parameters"
    /\ argv.addresses # {} /\ ~TooMany(argv.addresses)

\* C10: the scan resolves each token of the filter at most once: the tokens
\* resolved are distinct tokens of the filter, none of them is outstanding,
\* and each accounts for one device found.
C10_ConsumingMatch ==
    pc = "scan" =>
        /\ \A p, q \in DOMAIN resolved : p # q => resolved[p] # resolved[q]
        /\ \A p \in DOMAIN resolved :
                resolved[p] \in filter_ /\ ~InSeq(resolved[p], consumed_filter)
        /\ Len(found_bulbs) = Len(resolved)
        /\ Len(resolved) + Len(consumed_filter) = Cardinality(filter_)

\* C10: an advertisement matched a token that was consumed before, and was
\* not resolved again.
C10_Witness == pc = "scan" /\ late /\ resolved # <<>>

\* ------------------------------------------------- claims on the scan in time
Range(f) == {f[i] : i \in DOMAIN f}

\* The address begins with 00:1A:22, in upper or lower case.
VendorPrefixed(d) ==
    \E p \in {<<"00", "1A", "22">>, <<"00", "1a", "22">>} : StartsWith(Address(d), p)

\* C11: a filtered scan returns only when no target is outstanding or
\* timeout + target_count seconds have gone by, and it does not go on
\* scanning for two seconds or more once one of the two holds.
C11_StopsWhenDue ==
    entry = "scan" /\ filter_ # {} =>
        /\ pc = "scan_done" => StopDue
        /\ overrun < 2

\* C12 as stated: an unfiltered scan ends after exactly its duration and
\* returns every advertised device whose address has the vendor prefix.
C12_CollectsEveryPrefixed ==
    entry = "scan" /\ filter_ = {} /\ pc = "scan_done" =>
        /\ now = start_time + duration
        /\ \A d \in advertised : VendorPrefixed(d) => d \in Range(devices)

\* C12 amended: an unfiltered scan ends after exactly its duration and
\* returns every advertised device that has a name and whose address has
\* the vendor prefix.
C12_CollectsEveryNamedPrefixed ==
    entry = "scan" /\ filter_ = {} /\ pc = "scan_done" =>
        /\ now = start_time + duration
        /\ \A d \in advertised : VendorPrefixed(d) /\ Name(d) # <<>> => d \in Range(devices)

\* C12 witness: an unfiltered scan of two seconds or more has returned two
\* thermostats, one of them with a lower case address, after a device
\* without a name and a foreign device were advertised too.
C12_Witness ==
    /\ entry = "scan" /\ filter_ = {} /\ pc = "scan_done" /\ duration >= 2
    /\ advertised = ScanDevices
    /\ {"d1", "d2"} \subseteq Range(devices)

\* The caller's call of connect has ended.
ConnectEnded == method # "none" /\ ~(method = "connect" /\ ahead # <<>>)

\* C13: when the transport is connected and notifications are not
\* subscribed (start_notify failed, or the characteristic cannot notify),
\* connect has returned without an exception and exactly one warning was
\* logged, at connect.
C13_ConnectSurvivesNoNotify ==
    entry = "thermostat" /\ link /\ ~notifying /\ ConnectEnded =>
        /\ warnings = 1
        /\ method = "connect" => outcome = "ok"

\* The methods that are one send.
OneSend == {"setTemperature", "requestStatus"}

\* C14: a method that is one send has returned exactly when its write was
\* acknowledged and the settle interval has passed once, whether a
\* notification arrived meanwhile or not; it awaits nothing but the write
\* and the sleep, and it ends with an exception only if the write does.
C14_SendEndsAfterOneSettle ==
    entry = "thermostat" /\ method \in OneSend =>
        /\ (ahead = <<>> /\ outcome = "ok") <=> (acks = 1 /\ settles = 1)
        /\ \A k \in 1..Len(ahead) : ahead[k] \in {"write", "sleep"}
        /\ outcome # "ok" => acks = 0 /\ settles = 0
        /\ settles <= acks

\* C14 witness: requestStatus has returned after its write and one settle
\* interval although the subscribed device sent no notification.
C14_Witness ==
    /\ entry = "thermostat" /\ method = "requestStatus" /\ notifying
    /\ ahead = <<>> /\ outcome = "ok" /\ ~heard /\ acks = 1 /\ settles = 1

\* A STATUS frame of the short form: the 10 bytes of the legacy firmware.
ShortStatusFrame(f) == StartsWith(f, NOTIFY_STATUS) /\ Len(f) = 10

\* C15: decoding a short STATUS frame raises nothing, sets mode, valve,
\* temperature and vacation from the frame, and leaves the open-window
\* configuration, the comfort, eco and offset temperatures as they were.
C15_ShortStatusKeepsOptional ==
    [][ShortStatusFrame(frame') =>
          /\ decodeError' = "none"
          /\ state'.mode = frame'[3]
          /\ state'.valve = frame'[4]
          /\ state'.temperature = fromByte(frame'[6])
          /\ state'.vacation = Vacation_fromBytes(SubSeq(frame', 7, 10))
          /\ state'.openWindowConfig = state.openWindowConfig
          /\ state'.comfortTemperature = state.comfortTemperature
          /\ state'.ecoTemperature = state.ecoTemperature
          /\ state'.offsetTemperature = state.offsetTemperature]_vars

\* A frame that begins with none of the four prefixes.
Unrecognized(f) ==
    /\ f # NoFrame
    /\ ~(Len(f) >= 1 /\ f[1] \in {1, 33})
    /\ ~(Len(f) >= 2 /\ f[1] = 2 /\ f[2] \in {1, 2})

\* C16: decoding a frame that begins with none of the four prefixes raises
\* nothing and leaves every attribute as it was.
C16_UnrecognizedIgnored ==
    [][Unrecognized(frame') => state' = state /\ decodeError' = "none"]_vars

\* C16 witness: a frame of one byte 0x02 alone, or one that begins 0x02 0x03,
\* was decoded on attributes a status frame had filled.
C16_Witness ==
    /\ entry = "thermostat" /\ frame \in {<<2>>, <<2, 3, 9>>}
    /\ state.mode # None /\ state.comfortTemperature # None

C18_CleanupAttemptsAllAndEnds ==
    /\ [][cleanup_pc = "snapshot" /\ cleanup_pc' # "snapshot" =>
             to_disconnect' = connected_thermostats]_vars
    /\ [](cleanup_pc \in {"gather", "done", "exited"} =>
             \A t \in to_disconnect : disconnect_pc[t] # "none")
    /\ [](cleanup_pc \in {"done", "exited"} =>
             \A t \in to_disconnect : disconnect_pc[t] = "done")
    /\ [](abandoned # {} => elapsed = DISCONNECT_TIMEOUT)
    /\ (cleanup_pc # "running") ~> (cleanup_pc = "exited")

\* C18 witness: the process has exited after cleanup_all gathered three
\* sessions, of which one disconnected in time and one never did.
C18_Witness ==
    /\ entry = "api" /\ cleanup_pc = "exited"
    /\ to_disconnect = Tasks
    /\ abandoned # {} /\ abandoned # to_disconnect

\* The accesses to connected_thermostats under way: tasks in the body of a
\* with statement, cleanup_thermostats in its own, coroutines of cleanup_all
\* in theirs.
Accessing ==
    {<<"task", k>> : k \in {j \in Tasks : task_pc[j] \in {"adding", "discarding"}}}
    \cup {<<"main", t>> : t \in {j \in Tasks : disconnect_pc[j] = "discarding"}}
    \cup (IF cleanup_pc = "snapshot" THEN {<<"main", "cleanup_thermostats">>} ELSE {})

\* C19: at most one access to connected_thermostats is under way at a time,
\* and whoever is in one holds connected_thermostats_lock.
C19_RegistryUnderLock ==
    entry = "api" =>
        /\ Cardinality(Accessing) <= 1
        /\ \A a \in Accessing : lock_holder = (IF a[1] = "main" THEN "main" ELSE a[2])
        /\ Accessing = {} => lock_holder = "none"

\* C19 witness: a request adds its session to the registry while a polling
\* task waits for the lock to discard its own and the shutdown waits for it
\* to read the registry.
C19_Witness ==
    /\ entry = "api" /\ task_pc["set_temperature"] = "adding"
    /\ task_pc["poll1"] = "discard_wait"
    /\ cleanup_pc = "snapshot_wait"

\* The valid values of a Temperature, in tenths: -4.5 to 30.0 in steps of 0.5.
ValidTemperature == {5 * k : k \in -9..60}

\* C20: a Temperature of a valid value is constructed, and the value decoded
\* from its byte is the value it was made of.
C20_RoundTrip ==
    entry = "temperature" /\ valueC \in ValidTemperature =>
        /\ made # "EqivaException"
        /\ back # None => back = valueC

\* C20 witness: -4.5 degrees were encoded and decoded.
C20_Witness ==
    entry = "temperature" /\ valueC = -45 /\ byte = -9 /\ back = -45

\* C21: a Temperature of a value below -4.5, above 30.0 or off the steps
\* of 0.5 is not made: __init__ raises, and no byte and no decoded value
\* exist for it.
C21_InvalidTemperatureRejected ==
    entry = "temperature" /\ valueC \notin ValidTemperature =>
        /\ made \in {"none", "EqivaException"}
        /\ byte = None /\ back = None

\* C21 witness: 20.3, -4.6 or 30.1 degrees were given and __init__ raised.
C21_Witness ==
    entry = "temperature" /\ valueC \in {203, -46, 301} /\ made = "EqivaException"

\* The arguments given are those of an Event the claims call valid, with a
\* Temperature.
ValidEventGiven ==
    /\ entry = "value" /\ vt = "Event" /\ venc.error # "given"
    /\ vin[1] # None /\ vin[2] \in 0..24 /\ vin[3] \in {0, 10, 20, 30, 40, 50}

\* C30: a valid Event is constructed; its toBytes returns the temperature
\* byte and hour * 6 + minute / 10; fromBytes of these bytes has the same
\* temperature, hour and minute; and fromBytes of a time byte whose hour is
\* above 24 raises the validation error.
C30_EventRoundTrip ==
    /\ ValidEventGiven =>
          /\ vobj.made \in {"none", "ok"}
          /\ venc.error \in {"pending", "none"}
          /\ venc.error = "none" =>
                venc.bytes = <<toByte(vin[1]), vin[2] * 6 + vin[3] \div 10>>
          /\ vdec.error \in {"pending", "none"}
          /\ vdec.error = "none" => vdec.value = vin
    /\ entry = "value" /\ vt = "Event" /\ venc.error = "given" /\ Len(venc.bytes) = 2
          /\ venc.bytes[2] \div 6 > 24 /\ vdec.error # "pending" =>
          vdec.error = "EqivaException"

\* A Program of 1 to 7 events is given.
ProgramGiven == entry = "value" /\ vt = "Program" /\ Len(vin) \in 1..7

\* C24: toBytes of a Program of 1 to 7 events returns 14 bytes: the two
\* bytes of each event in order, then zeros.
C24_ProgramFourteenBytes ==
    ProgramGiven =>
        /\ venc.error \in {"pending", "none"}
        /\ venc.error = "none" =>
              /\ Len(venc.bytes) = 14
              /\ \A i \in 1..Len(vin) :
                    /\ venc.bytes[2 * i - 1] = toByte(vin[i][1])
                    /\ venc.bytes[2 * i] = vin[i][2] * 6 + vin[i][3] \div 10
              /\ \A j \in (2 * Len(vin) + 1)..14 : venc.bytes[j] = 0

\* C23: a Program of 1 to 7 events is encoded, and fromBytes of its bytes
\* holds the same events in the same order, followed by events of hour 0
\* up to 7, which are not presented.
C23_ProgramRoundTrip ==
    ProgramGiven =>
        /\ venc.error \in {"pending", "none"}
        /\ vdec.error \in {"pending", "none"}
        /\ vdec.error = "none" =>
              /\ Len(vdec.value) = 7
              /\ SubSeq(vdec.value, 1, Len(vin)) = vin
              /\ \A i \in (Len(vin) + 1)..7 : vdec.value[i][2] = 0
              /\ Presented(vdec.value) = Presented(vin)

\* One of the encoding methods was called with arguments that were
\* accepted: Temperatures, a Vacation of a datetime, an OpenWindowConfig.
CommandCalled ==
    entry = "value" /\ vt \in Commands_encoding /\ vobj.made = "ok" /\ venc.error # "pending"

\* C22: each of setTemperature, setOffsetTemperature,
\* setComfortEcoTemperature, setVacation and setOpenWindow, called with
\* accepted values, builds a frame, and every byte of it is in 0..255.
C22_EncodingTotal ==
    CommandCalled =>
        /\ venc.error = "none"
        /\ \A i \in 1..Len(venc.bytes) : venc.bytes[i] \in 0..255

\* A datetime was given to Vacation().
VacationGiven == entry = "value" /\ vt = "Vacation" /\ venc.error # "given" /\ vin # <<>>

\* C25: Vacation() holds the 30-minute boundary at or before the datetime
\* given, and fromBytes of its toBytes is exactly this boundary.
C25_VacationFloored ==
    VacationGiven =>
        /\ vobj.made = "ok" =>
              vobj.value = <<vin[1], vin[2], vin[3], vin[4], (vin[5] \div 30) * 30, 0>>
        /\ venc.error \in {"pending", "none"}
        /\ vdec.error \in {"pending", "none"}
        /\ vdec.error = "none" => vdec.value = vobj.value

\* Four bytes were given to Vacation.fromBytes, and it ended.
VacationDecoded ==
    /\ entry = "value" /\ vt = "Vacation" /\ venc.error = "given"
    /\ Len(venc.bytes) = 4 /\ vdec.error # "pending"

\* C26 as stated: a day byte of 0 decodes to no vacation whatever the other
\* bytes are, and a day byte above 0 decodes to an end timestamp.
C26_DayByteDecides ==
    VacationDecoded =>
        /\ vdec.error = "none"
        /\ venc.bytes[1] = 0 <=> vdec.value = <<>>

\* The days of the months of a year that is no leap year.
MonthLengths == <<31, 28, 31, 30, 31, 30, 31, 31, 30, 31, 30, 31>>

\* The bytes day, year, half hours, month name a day of the calendar of the
\* years 2000 to 2255 and a half hour of the day.
CalendarBytes(b) ==
    /\ b[4] \in 1..12
    /\ b[3] \in 0..47
    /\ \/ b[1] \in 1..MonthLengths[b[4]]
       \/ b[1] = 29 /\ b[4] = 2 /\ b[2] % 4 = 0 /\ b[2] \notin {100, 200}

\* C26 amended: a day byte of 0 decodes to no vacation whatever the other
\* bytes are; a day byte above 0 decodes to the end timestamp when the bytes
\* name a day of the calendar and a half hour of the day, and raises
\* ValueError when they do not.
C26_DayByteDecidesValidDate ==
    VacationDecoded =>
        LET b == venc.bytes
        IN  /\ b[1] = 0 => vdec.error = "none" /\ vdec.value = <<>>
            /\ b[1] # 0 /\ CalendarBytes(b) =>
                  /\ vdec.error = "none"
                  /\ vdec.value = <<2000 + b[2], b[4], b[1], b[3] \div 2, 30 * (b[3] % 2), 0>>
            /\ b[1] # 0 /\ ~CalendarBytes(b) => vdec.error = "ValueError"

\* C26 witness: day byte 0 with a month of 13 was decoded to no vacation,
\* or the 29th of February 2024, 10:30, was decoded.
C26_Witness ==
    /\ VacationDecoded
    /\ \/ venc.bytes[1] = 0 /\ venc.bytes[4] = 13 /\ vdec.value = <<>>
       \/ venc.bytes = <<29, 24, 21, 2>> /\ vdec.error = "none"

\* A mode byte was given to Mode and to_dict returned.
ModeDecoded == entry = "value" /\ vt = "Mode" /\ vdec.error = "none"

\* C27 as stated: 0x00 decodes to AUTO, 0x01 to the empty list, 0x05 to
\* BOOST alone.
C27_ModeDecoding ==
    ModeDecoded =>
        /\ venc.bytes = <<0>> => vdec.value = <<"AUTO">>
        /\ venc.bytes = <<1>> => vdec.value = <<>>
        /\ venc.bytes = <<5>> => vdec.value = <<"BOOST">>

\* C27 amended: 0x00 decodes to AUTO, 0x01 to MANUAL, 0x05 to MANUAL and
\* BOOST.
C27_ModeDecodingManual ==
    ModeDecoded =>
        /\ venc.bytes = <<0>> => vdec.value = <<"AUTO">>
        /\ venc.bytes = <<1>> => vdec.value = <<"MANUAL">>
        /\ venc.bytes = <<5>> => vdec.value = <<"MANUAL", "BOOST">>

\* C27 witness: the mode byte 0x05 was decoded.
C27_Witness == ModeDecoded /\ venc.bytes = <<5>>

\* The Temperatures and the minutes of the attributes st that are set.
TemperaturesOf(st) ==
    ({st.temperature, st.comfortTemperature, st.ecoTemperature, st.offsetTemperature} \ {None})
    \cup (IF Len(st.openWindowConfig) = 2 THEN {st.openWindowConfig[1]} ELSE {})
    \cup UNION {{st.programs[d][i][1] : i \in 1..7} : d \in {d \in 0..6 : Len(st.programs[d]) = 7}}

\* C28: whatever frames were notified, every Temperature of the attributes
\* is one that Temperature() accepts, and the minutes of the open window
\* configuration are in 0..995.
C28_DecodedValuesValid ==
    entry = "thermostat" =>
        /\ TemperaturesOf(state) \subseteq ValidTemperature
        /\ Len(state.openWindowConfig) = 2 => state.openWindowConfig[2] \in 0..995

\* The frame is a PROGRAM_REQUEST for a day of 0..6 whose 14 program bytes
\* decode: each of the 7 time bytes is of an hour up to 24.
ProgramFrame(f) ==
    /\ Len(f) >= 16 /\ f[1] = 33 /\ f[2] \in 0..6
    /\ \A i \in 1..7 : f[2 * i + 2] \div 6 <= 24

\* The event of the two bytes t and h.
DecodedEvent(t, h) == <<t * 5, h \div 6, 10 * (h % 6)>>

\* C29: a PROGRAM_REQUEST for the day d of 0..6 puts the 7 events decoded
\* from its bytes into programs[d], raises nothing, and changes no other
\* program and no other attribute.
C29_ProgramReplacesOneDay ==
    [][entry = "thermostat" /\ ProgramFrame(frame') =>
          /\ decodeError' = "none"
          /\ state' = [state EXCEPT !.programs[frame'[2]] =
                          [i \in 1..7 |-> DecodedEvent(frame'[2 * i + 1], frame'[2 * i + 2])]]]_vars

\* C29 witness: the program of day 3 was notified after a status and the
\* program of day 0, which are still there.
C29_Witness ==
    /\ entry = "thermostat" /\ frame = <<33, 3>> \o ProgramBytesA /\ decodeError = "none"
    /\ Len(state.programs[3]) = 7 /\ state.programs[3][2] = <<210, 22, 0>>
    /\ Len(state.programs[0]) = 7 /\ state.programs[0][1] = <<200, 7, 0>>
    /\ Len(state.programs[6]) = 1
    /\ state.temperature = 220

\* C31: the byte that setOffsetTemperature(o) writes, put into a STATUS
\* frame as its offset byte, is decoded to an offsetTemperature of o.
C31_OffsetBiasSymmetric ==
    entry = "value" /\ vt = "setOffsetTemperature" /\ vdec.error # "pending" =>
        /\ vdec.error = "none"
        /\ vdec.value = <<vin[1], vin[1]>>

\* C31 witness: the offsets -3.5 and 30.0 were written and decoded.
C31_Witness ==
    /\ entry = "value" /\ vt = "setOffsetTemperature" /\ vdec.error = "none"
    /\ vin[1] \in {-35, 300} /\ venc.bytes[2] \in {0, 67}

\* Arguments were given to OpenWindowConfig(), with a Temperature.
OpenWindowGiven ==
    entry = "value" /\ vt = "OpenWindowConfig" /\ vin[1] # None /\ vobj.made # "none"

\* C32: OpenWindowConfig() raises for minutes below 0, above 995 or off the
\* steps of 5; a config that is made encodes to the temperature byte and
\* minutes / 5, and fromBytes of these bytes has its temperature and minutes.
C32_OpenWindowRoundTrip ==
    OpenWindowGiven =>
        /\ vin[2] \notin {5 * k : k \in 0..199} <=> vobj.made = "EqivaException"
        /\ vobj.made = "ok" =>
              /\ venc.error \in {"pending", "none"}
              /\ venc.error = "none" => venc.bytes = <<toByte(vin[1]), vin[2] \div 5>>
              /\ vdec.error \in {"pending", "none"}
              /\ vdec.error = "none" => vdec.value = vin

\* C33: a poll of a thermostat that reads what the poll before it read of
\* the same thermostat leaves the store as it is and saves nothing.
C33_UnchangedPollWritesNothing ==
    [][/\ entry = "poll"
       /\ polled.outcome = "ok" /\ polled'.outcome = "ok"
       /\ polled'.mac = polled.mac
       /\ polled'.new_status = polled.new_status
       => status_store' = status_store /\ saved' = saved]_vars

\* C34: at most one polling thread and at most one DHT reading thread are
\* ever started.
C34_ThreadsStartedOnce ==
    entry = "threads" => threads.polling <= 1 /\ threads.dht <= 1

\* The bit of each mode name but AUTO.
ModeBits ==
    [VACATION |-> 2, BOOST |-> 4, DAYLIGHT_SUMMER_TIME |-> 8, OPEN_WINDOW |-> 16,
     LOCKED |-> 32, UNKNOWN |-> 64, BATTERY_LOW |-> 128]

\* C35: the mode list of a status byte b holds AUTO exactly if bit 0x01 of b
\* is clear, and holds each of VACATION, BOOST, DAYLIGHT_SUMMER_TIME,
\* OPEN_WINDOW, LOCKED, UNKNOWN and BATTERY_LOW exactly if its bit is set.
C35_ModeListMatchesBits ==
    ModeDecoded =>
        LET b == venc.bytes[1]
            has(n) == \E i \in DOMAIN vdec.value : vdec.value[i] = n
        IN  /\ has("AUTO") <=> b % 2 = 0
            /\ \A n \in DOMAIN ModeBits : has(n) <=> (b \div ModeBits[n]) % 2 = 1

\* C35 witness: the byte 0xA4 was decoded to AUTO, BOOST, LOCKED and
\* BATTERY_LOW.
C35_Witness ==
    ModeDecoded /\ venc.bytes = <<164>>
        /\ vdec.value = <<"AUTO", "BOOST", "LOCKED", "BATTERY_LOW">>

\* C36: at every point of a filtered scan, the devices resolved and the
\* tokens outstanding are together as many as the tokens requested; every
\* device resolved has the vendor prefix and its address or its name is a
\* requested token; and the devices are never more than the tokens.
C36_ResolvedPlusOutstanding ==
    entry = "scan" /\ filter_ # {} =>
        /\ Len(found_bulbs) + Len(consumed_filter) = Cardinality(filter_)
        /\ \A i \in DOMAIN found_bulbs :
              /\ SubSeq(Upper(Address(found_bulbs[i])), 1, 3) = MAC_PREFIX
              /\ Address(found_bulbs[i]) \in filter_ \/ Name(found_bulbs[i]) \in filter_
        /\ Len(found_bulbs) <= Cardinality(filter_)
        /\ pc = "scan_done" => Len(devices) <= Cardinality(filter_)

\* C36 witness: of three tokens, two are resolved and one is outstanding
\* when the scan returns.
C36_Witness ==
    /\ entry = "scan" /\ pc = "scan_done" /\ Cardinality(filter_) = 3
    /\ Len(found_bulbs) = 2 /\ Len(consumed_filter) = 1 /\ Len(devices) = 2

\* A command of session i is in flight: its write is begun and its settle
\* interval has not ended.
InFlight(i) == tstate[i] = "run" /\ todo[i] # <<>> /\ Head(todo[i]) \in {"write", "sleep"}

\* C37: no disconnect of a session is started while a command of this
\* session is in flight.
C37_NoDisconnectInFlight ==
    [][\A i \in DOMAIN dstate \cap DOMAIN dstate' :
          dstate[i] # "run" /\ dstate'[i] = "run" => ~InFlight(i)]_vars

\* The task is past its connect: in its command or in its finally clause.
PastConnect(p) == p \in {"using", "disconnecting", "discard_wait", "discarding", "finished"}

\* C38: a session enters the registry only in safe_connect after its connect
\* succeeded; a task whose connect failed has no session in the registry and
\* never adds one; and when the task has returned, its session is not in
\* the registry.
C38_RegistryOnlyWhileOpen ==
    [][\A k \in Tasks :
          /\ k \in connected_thermostats' /\ k \notin connected_thermostats
                => task_pc[k] = "adding" /\ task_pc'[k] = "using"
          /\ task_pc[k] = "idle" /\ task_pc'[k] = "disconnecting"
                => k \notin connected_thermostats'
          /\ PastConnect(task_pc[k]) => PastConnect(task_pc'[k])
          /\ task_pc'[k] = "finished" => k \notin connected_thermostats']_vars

\* C38 witness: one task has returned and its session is out of the
\* registry, while the session of another, whose connect succeeded, is in.
C38_Witness ==
    /\ entry = "api"
    /\ \E k, j \in Tasks :
          /\ task_pc[k] = "finished" /\ k \notin connected_thermostats
          /\ task_pc[j] = "using" /\ j \in connected_thermostats

\* The days of the device the claim names for requestProgram(day) on the
\* weekday w, Monday being 0.
ClaimedDays(day, w) ==
    CASE day \in 0..6 -> <<day>>
      [] day = 7 -> <<0, 1>>
      [] day = 8 -> <<2, 3, 4, 5, 6>>
      [] day = 9 -> <<0, 1, 2, 3, 4, 5, 6>>
      [] day = 10 -> <<(w + 2) % 7>>
      [] day = 11 -> <<(w + 3) % 7>>

\* requestProgram was called with one of the days 0..11 and has ended.
ProgramRequested ==
    entry = "value" /\ vt = "requestProgram" /\ vin[1] \in 0..11 /\ venc.error # "pending"

\* C39: requestProgram writes one frame for each day the claim names, in
\* ascending order of the days, all before its one sleep, and every day it
\* writes is in 0..6.
C39_RequestProgramDays ==
    ProgramRequested =>
        LET days == ClaimedDays(vin[1], vin[2])
            n == Len(days)
        IN  /\ venc.error = "none"
            /\ Len(venc.bytes) = n + 1
            /\ \A i \in 1..n :
                  /\ venc.bytes[i] = [await |-> "write", frame |-> <<32, days[i]>>]
                  /\ days[i] \in 0..6
                  /\ i < n => days[i] < days[i + 1]
            /\ venc.bytes[n + 1].await = "sleep"

\* C39 witness: TODAY was requested on a Saturday and day 0 was written, or
\* WORKDAY was requested and five frames were written.
C39_Witness ==
    /\ ProgramRequested
    /\ \/ vin = <<10, 5>> /\ venc.bytes[1].frame = <<32, 0>>
       \/ vin[1] = 8 /\ Len(venc.bytes) = 6 /\ venc.bytes[5].frame = <<32, 6>>

====
